---- MODULE Spec2Model ----
(***************************************************************************)
(* Broker statement import pipeline of the trading journal: the edge       *)
(* functions import-zerodha-csv (auto-detecting Zerodha/Groww) and         *)
(* import-groww-csv, their row extractors, and the trades table they read  *)
(* and write.                                                              *)
(*                                                                         *)
(* Text is modelled as sequences of one-character strings so that          *)
(* String.includes, trim, toUpperCase, parseFloat and the date regular     *)
(* expressions are computed character by character.  Numbers are exact     *)
(* rationals n/d in lowest terms, or NaN.                                  *)
(***************************************************************************)
EXTENDS Integers, Sequences, FiniteSets, TLC

(***************************************************************************)
(* Characters and strings                                                  *)
(***************************************************************************)
LowerChars == <<"a","b","c","d","e","f","g","h","i","j","k","l","m",
                "n","o","p","q","r","s","t","u","v","w","x","y","z">>

UpperChars == <<"A","B","C","D","E","F","G","H","I","J","K","L","M",
                "N","O","P","Q","R","S","T","U","V","W","X","Y","Z">>

DigitChars == <<"0","1","2","3","4","5","6","7","8","9">>

Range(f) == { f[i] : i \in DOMAIN f }

Digits == Range(DigitChars)

Letters == Range(LowerChars) \cup Range(UpperChars)

Spaces == {" "}

IsDigit(c) == c \in Digits

IsLetter(c) == c \in Letters

IsSpace(c) == c \in Spaces

DigitVal(c) == (CHOOSE i \in 1..10 : DigitChars[i] = c) - 1

\* String.prototype.toUpperCase / toLowerCase, one character
UpChar(c) ==
  IF c \in Range(LowerChars)
    THEN UpperChars[CHOOSE i \in 1..26 : LowerChars[i] = c]
    ELSE c

LowChar(c) ==
  IF c \in Range(UpperChars)
    THEN LowerChars[CHOOSE i \in 1..26 : UpperChars[i] = c]
    ELSE c

toUpperCase(s) == [i \in 1..Len(s) |-> UpChar(s[i])]

toLowerCase(s) == [i \in 1..Len(s) |-> LowChar(s[i])]

\* String.prototype.includes
Includes(s, sub) ==
  \E i \in 0..(Len(s) - Len(sub)) : SubSeq(s, i + 1, i + Len(sub)) = sub

\* String.prototype.trim
RECURSIVE TrimLeft(_)
TrimLeft(s) ==
  IF s # <<>> /\ IsSpace(Head(s)) THEN TrimLeft(Tail(s)) ELSE s

RECURSIVE TrimRight(_)
TrimRight(s) ==
  IF s # <<>> /\ IsSpace(s[Len(s)])
    THEN TrimRight(SubSeq(s, 1, Len(s) - 1))
    ELSE s

Trim(s) == TrimRight(TrimLeft(s))

\* a || b for texts (the empty text is falsy)
FirstNonEmpty(a, b) == IF a # <<>> THEN a ELSE b

\* number of consecutive characters of s, from position i, that are in S
RECURSIVE RunLen(_, _, _)
RunLen(s, i, S) ==
  IF i <= Len(s) /\ s[i] \in S THEN 1 + RunLen(s, i + 1, S) ELSE 0

\* /^\d+$/.test(s)
AllDigits(s) == s # <<>> /\ \A i \in 1..Len(s) : IsDigit(s[i])

(***************************************************************************)
(* Numbers: the JavaScript numbers the handlers compute with               *)
(***************************************************************************)
RECURSIVE Gcd(_, _)
Gcd(a, b) == IF b = 0 THEN a ELSE Gcd(b, a % b)

AbsInt(n) == IF n < 0 THEN -n ELSE n

NaN == [nan |-> TRUE, n |-> 0, d |-> 1]

\* the rational n/d (d > 0) in lowest terms
Rat(n, d) ==
  LET g == Gcd(AbsInt(n), d)
  IN  [nan |-> FALSE, n |-> n \div g, d |-> d \div g]

Num(n) == Rat(n, 1)

isNaN(x) == x.nan

\* x > 0, x < 0, x === 0, !x   (every comparison with NaN is false)
GtZero(x) == ~x.nan /\ x.n > 0

LtZero(x) == ~x.nan /\ x.n < 0

EqZero(x) == ~x.nan /\ x.n = 0

Falsy(x) == x.nan \/ x.n = 0

\* x < y
NumLt(x, y) == ~x.nan /\ ~y.nan /\ x.n * y.d < y.n * x.d

\* x / y for y > 0
NumDiv(x, y) ==
  IF x.nan \/ y.nan THEN NaN ELSE Rat(x.n * y.d, x.d * y.n)

\* Math.abs
MathAbs(x) == IF x.nan THEN NaN ELSE Rat(AbsInt(x.n), x.d)

RECURSIVE Pow10(_)
Pow10(k) == IF k = 0 THEN 1 ELSE 10 * Pow10(k - 1)

\* value of the digits s[i .. i+k-1]
RECURSIVE DigitsVal(_, _, _)
DigitsVal(s, i, k) ==
  IF k = 0 THEN 0
  ELSE 10 * DigitsVal(s, i, k - 1) + DigitVal(s[i + k - 1])

\* parseFloat on text without leading white space: an optional sign,
\* digits, an optional fraction; the longest such prefix is the value and
\* anything after it is ignored; NaN when no digit is found.  (Exponents
\* and "Infinity" are not among the cell texts the model draws.)
ParseNumber(s) ==
  LET neg     == s # <<>> /\ Head(s) = "-"
      p       == IF s # <<>> /\ Head(s) \in {"-", "+"} THEN 2 ELSE 1
      intLen  == RunLen(s, p, Digits)
      fracLen == IF p + intLen <= Len(s) /\ s[p + intLen] = "."
                   THEN RunLen(s, p + intLen + 1, Digits) ELSE 0
      mag     == DigitsVal(s, p, intLen) * Pow10(fracLen)
                   + DigitsVal(s, p + intLen + 1, fracLen)
  IN  IF intLen = 0 /\ fracLen = 0 THEN NaN
      ELSE Rat(IF neg THEN -mag ELSE mag, Pow10(fracLen))

parseFloat(str) == ParseNumber(TrimLeft(str))

(***************************************************************************)
(* Rows: a mapping from the column labels present to the cell text.  A     *)
(* numeric cell behaves as its text, except the number 0, which is falsy   *)
(* like the empty text.                                                    *)
(***************************************************************************)
\* row[c1] || row[c2] || ... || dflt
RECURSIVE FirstTruthy(_, _, _)
FirstTruthy(row, cols, dflt) ==
  IF cols = <<>> THEN dflt
  ELSE IF Head(cols) \in DOMAIN row /\ row[Head(cols)] # <<>>
         THEN row[Head(cols)]
         ELSE FirstTruthy(row, Tail(cols), dflt)

Zero == <<"0">>

Null == <<>>

Some(x) == <<x>>


(***************************************************************************)
(* Extractors of the auto-detecting import function                        *)
(***************************************************************************)
sFUT == <<"F","U","T">>
sFUTURE == <<"F","U","T","U","R","E">>
sCE == <<"C","E">>
sPE == <<"P","E">>
sCALL == <<"C","A","L","L">>
sPUT == <<"P","U","T">>
sOPT == <<"O","P","T">>
sBoth == <<"b","o","t","h">>
sUnknown == <<"u","n","k","n","o","w","n">>
sSell == <<"s","e","l","l">>
sShort == <<"s","h","o","r","t">>
sStockName == <<"S","t","o","c","k"," ","n","a","m","e">>
sScripName == <<"S","c","r","i","p"," ","N","a","m","e">>
sUndefined == <<"u","n","d","e","f","i","n","e","d">>

CategoryOfUpper(symbolUpper) ==
  IF Includes(symbolUpper, sFUT) \/ Includes(symbolUpper, sFUTURE)
    THEN "futures"
  ELSE IF Includes(symbolUpper, sCE) \/ Includes(symbolUpper, sPE)
            \/ Includes(symbolUpper, sCALL) \/ Includes(symbolUpper, sPUT)
            \/ Includes(symbolUpper, sOPT)
    THEN "options"
  ELSE "equity"

determineCategory(symbol) == CategoryOfUpper(toUpperCase(symbol))

\* the marker texts of parseZerodhaRow's summary/header test
ZerodhaMarkers ==
  { <<"S","u","m","m","a","r","y">>,
    <<"C","h","a","r","g","e","s">>,
    <<"C","l","i","e","n","t"," ","I","D">>,
    <<"P","&","L"," ","S","t","a","t","e","m","e","n","t">>,
    <<"O","t","h","e","r"," ","D","e","b","i","t","s">> }

\* the marker texts of parseGrowwRow's summary/header test
GrowwMarkers ==
  { <<"S","u","m","m","a","r","y">>,
    <<"S","t","a","t","e","m","e","n","t">>,
    <<"R","e","a","l","i","s","e","d">>,
    <<"U","n","r","e","a","l","i","s","e","d">>,
    <<"C","h","a","r","g","e","s">>,
    <<"T","o","t","a","l">>,
    <<"D","i","s","c","l","a","i","m","e","r">>,
    <<"P","&","L">>,
    <<"E","x","c","h","a","n","g","e">>,
    <<"S","E","B","I">>,
    <<"S","T","T">>,
    <<"S","t","a","m","p">>,
    <<"I","P","F","T">>,
    <<"B","r","o","k","e","r","a","g","e">>,
    <<"G","S","T">>,
    <<"U","n","i","q","u","e"," ","C","l","i","e","n","t">>,
    <<"t","r","a","d","e","s">> }

ZerodhaIsMarker(symbol) ==
  symbol = <<>> \/ \E m \in ZerodhaMarkers : Includes(symbol, m)

GrowwIsMarker(symbol) ==
  \/ symbol = <<>>
  \/ \E m \in GrowwMarkers : Includes(symbol, m)
  \/ symbol = sStockName
  \/ symbol = sScripName


\* monthMap of parseDateString: pairs <<abbreviation, two-digit month>>
monthMap ==
  { <<<<"J","a","n">>, <<"0","1">>>>,
     <<<<"F","e","b">>, <<"0","2">>>>,
     <<<<"M","a","r">>, <<"0","3">>>>,
     <<<<"A","p","r">>, <<"0","4">>>>,
     <<<<"M","a","y">>, <<"0","5">>>>,
     <<<<"J","u","n">>, <<"0","6">>>>,
     <<<<"J","u","l">>, <<"0","7">>>>,
     <<<<"A","u","g">>, <<"0","8">>>>,
     <<<<"S","e","p">>, <<"0","9">>>>,
     <<<<"O","c","t">>, <<"1","0">>>>,
     <<<<"N","o","v">>, <<"1","1">>>>,
     <<<<"D","e","c">>, <<"1","2">>>> }

\* monthMap[key] inside a template literal: "undefined" for a missing key
MonthOf(key) ==
  IF \E e \in monthMap : e[1] = key
    THEN (CHOOSE e \in monthMap : e[1] = key)[2]
    ELSE sUndefined

\* /(\d{2})-(\d{2})-(\d{4})/ matches s at position i
MatchDMY(s, i) ==
  /\ i + 9 <= Len(s)
  /\ \A k \in {0, 1, 3, 4, 6, 7, 8, 9} : IsDigit(s[i + k])
  /\ s[i + 2] = "-"
  /\ s[i + 5] = "-"

\* /(\d{1,2})\s+([A-Za-z]{3})\s+(\d{4})/ at position i: the match as
\* <<day, month, year>>, or <<>>.  \d{1,2} takes two digits when it can and
\* then one; each \s+ must run up to the next letter or digit.
TryDMonY(s, i, dl, m, y) ==
  IF /\ RunLen(s, i, Digits) >= dl
     /\ m > i + dl
     /\ RunLen(s, m, Letters) >= 3
     /\ y > m + 3
     /\ RunLen(s, y, Digits) >= 4
    THEN <<SubSeq(s, i, i + dl - 1), SubSeq(s, m, m + 2), SubSeq(s, y, y + 3)>>
    ELSE <<>>

\* start of the month word, after the white space that follows the day
AfterSpaces(s, k) == k + RunLen(s, k, Spaces)

TryDay(s, i, dl, m) == TryDMonY(s, i, dl, m, AfterSpaces(s, m + 3))

MatchDMonY(s, i) ==
  FirstNonEmpty(TryDay(s, i, 2, AfterSpaces(s, i + 2)),
                TryDay(s, i, 1, AfterSpaces(s, i + 1)))

\* a day left as it was written
PadStartNone(s) == s

\* String.prototype.padStart(2, '0')
PadStart2(s) == IF Len(s) < 2 THEN <<"0">> \o s ELSE s

\* position of the leftmost match of the first pattern, 0 when none
FirstDMY(s) ==
  IF \E i \in 1..Len(s) : MatchDMY(s, i)
    THEN CHOOSE j \in 1..Len(s) :
           MatchDMY(s, j) /\ \A k \in 1..(j - 1) : ~MatchDMY(s, k)
    ELSE 0

\* position of the leftmost match of the second pattern, 0 when none
FirstDMonY(s) ==
  IF \E i \in 1..Len(s) : MatchDMonY(s, i) # <<>>
    THEN CHOOSE j \in 1..Len(s) :
           /\ MatchDMonY(s, j) # <<>>
           /\ \A k \in 1..(j - 1) : MatchDMonY(s, k) = <<>>
    ELSE 0

FormatDMY(s, i) ==
  SubSeq(s, i + 6, i + 9) \o <<"-">> \o SubSeq(s, i + 3, i + 4)
    \o <<"-">> \o SubSeq(s, i, i + 1)

FormatDMonY(g) ==
  g[3] \o <<"-">> \o MonthOf(g[2]) \o <<"-">> \o PadStart2(g[1])

DateFromMatches(dateStr, i1, i2) ==
  IF i1 > 0 THEN FormatDMY(dateStr, i1)
  ELSE IF i2 > 0 THEN FormatDMonY(MatchDMonY(dateStr, i2))
  ELSE dateStr

parseDateString(dateStr) ==
  IF dateStr = <<>> \/ Trim(dateStr) = <<>> THEN <<>>
  ELSE DateFromMatches(dateStr, FirstDMY(dateStr), FirstDMonY(dateStr))

\* parseZerodhaRow, lines 104-159: the marker test, the P&L-report branch
\* and the tradebook branch, on the resolved columns
ZerodhaCandidate(symbol, buyValue, sellValue, quantity, realizedPnL, tradeDate, buyPrice, sellPrice, pnl, tradeType, today) ==
  IF ZerodhaIsMarker(symbol) THEN Null
  ELSE IF GtZero(buyValue) /\ GtZero(sellValue) /\ GtZero(quantity)
    THEN Some([symbol |-> symbol, tradeDate |-> today,
               quantity |-> quantity,
               buyPrice |-> NumDiv(buyValue, quantity),
               sellPrice |-> NumDiv(sellValue, quantity),
               pnl |-> realizedPnL, tradeType |-> sBoth,
               category |-> determineCategory(symbol),
               broker |-> "zerodha"])
  ELSE IF tradeDate = <<>> \/ Falsy(quantity)
            \/ (EqZero(buyPrice) /\ EqZero(sellPrice))
    THEN Null
  ELSE Some([symbol |-> symbol, tradeDate |-> tradeDate,
             quantity |-> quantity, buyPrice |-> buyPrice,
             sellPrice |-> sellPrice, pnl |-> pnl,
             tradeType |-> tradeType,
             category |-> determineCategory(symbol),
             broker |-> "zerodha"])

\* the column aliases of parseZerodhaRow, lines 102-143
ZerodhaSymbol(row) ==
  Trim(FirstTruthy(row, <<"symbol", "Symbol", "SYMBOL", "scrip_name">>, <<>>))

ZerodhaBuyValue(row) ==
  parseFloat(FirstTruthy(row, <<"Buy Value", "buy_value">>, Zero))

ZerodhaSellValue(row) ==
  parseFloat(FirstTruthy(row, <<"Sell Value", "sell_value">>, Zero))

ZerodhaQuantity(row) ==
  parseFloat(FirstTruthy(row, <<"quantity", "Quantity", "qty">>, Zero))

ZerodhaRealizedPnL(row) ==
  parseFloat(FirstTruthy(row, <<"Realized P&L", "Realised P&L", "pnl", "P&L",
                                "profit_loss">>, Zero))

ZerodhaTradeDate(row) ==
  Trim(FirstTruthy(row, <<"trade_date", "Trade date", "Date", "date">>, <<>>))

ZerodhaBuyPrice(row) ==
  parseFloat(FirstTruthy(row, <<"trade_price", "Price", "price",
                                "buy_price">>, Zero))

ZerodhaSellPrice(row) ==
  parseFloat(FirstTruthy(row, <<"sell_price", "Sell Price">>, Zero))

ZerodhaPnl(row) ==
  parseFloat(FirstTruthy(row, <<"pnl", "P&L", "profit_loss">>, Zero))

ZerodhaTradeType(row) ==
  toLowerCase(FirstTruthy(row, <<"trade_type", "Type", "type">>, <<>>))

\* parseZerodhaRow of the auto-detecting import; today is
\* new Date().toISOString().split('T')[0]
parseZerodhaRow(row, today) ==
  ZerodhaCandidate(ZerodhaSymbol(row), ZerodhaBuyValue(row),
                   ZerodhaSellValue(row), ZerodhaQuantity(row),
                   ZerodhaRealizedPnL(row), ZerodhaTradeDate(row),
                   ZerodhaBuyPrice(row), ZerodhaSellPrice(row),
                   ZerodhaPnl(row), ZerodhaTradeType(row), today)

\* parseGrowwRow after the symbol test: the date gate and the field gate
GrowwCandidate(symbol, quantity, tradeDate, buyPrice, sellPrice, pnl) ==
  IF tradeDate = <<>> \/ Len(tradeDate) < 8 THEN Null
  ELSE IF symbol = <<>> \/ Falsy(quantity)
            \/ (EqZero(buyPrice) /\ EqZero(sellPrice))
    THEN Null
  ELSE Some([symbol |-> symbol, tradeDate |-> tradeDate,
             quantity |-> quantity, buyPrice |-> buyPrice,
             sellPrice |-> sellPrice, pnl |-> pnl,
             tradeType |-> IF GtZero(buyPrice) /\ GtZero(sellPrice)
                             THEN sBoth ELSE sUnknown,
             category |-> determineCategory(symbol),
             broker |-> "groww"])

\* the Groww column aliases, the same in both import functions
GrowwQuantity(row) == parseFloat(FirstTruthy(row, <<"Quantity">>, Zero))

GrowwBuyDate(row) ==
  parseDateString(Trim(FirstTruthy(row, <<"Buy date", "Buy Date">>, <<>>)))

GrowwSellDate(row) ==
  parseDateString(Trim(FirstTruthy(row, <<"Sell date", "Sell Date">>, <<>>)))

GrowwBuyPrice(row) ==
  parseFloat(FirstTruthy(row, <<"Buy price", "Buy Price", "Avg Buy Price">>,
                         Zero))

GrowwSellPrice(row) ==
  parseFloat(FirstTruthy(row, <<"Sell price", "Sell Price",
                                "Avg Sell Price">>, Zero))

GrowwPnl(row) ==
  parseFloat(FirstTruthy(row, <<"Realised P&L", "Realized P&L", "P&L">>, Zero))

GrowwFields(row, symbol) ==
  GrowwCandidate(symbol, GrowwQuantity(row),
                 FirstNonEmpty(GrowwBuyDate(row), GrowwSellDate(row)),
                 GrowwBuyPrice(row), GrowwSellPrice(row), GrowwPnl(row))

GrowwSymbol(row) ==
  Trim(FirstTruthy(row,
         <<"Stock name", "Name", "Scrip Name", "Symbol">>, <<>>))

\* parseGrowwRow of the auto-detecting import
GrowwAfterSymbol(row, symbol) ==
  IF GrowwIsMarker(symbol) THEN Null ELSE GrowwFields(row, symbol)

parseGrowwRow(row) == GrowwAfterSymbol(row, GrowwSymbol(row))

\* parseGrowwRow of the Groww-only import (adds the all-digits symbol test)
GrowwOnlyAfterSymbol(row, symbol) ==
  IF GrowwIsMarker(symbol) \/ AllDigits(symbol) THEN Null
  ELSE GrowwFields(row, symbol)

parseGrowwRowOnly(row) == GrowwOnlyAfterSymbol(row, GrowwSymbol(row))


(***************************************************************************)
(* The trades table as the import functions see it                         *)
(***************************************************************************)
\* entry_date is TIMESTAMP WITH TIME ZONE: a date of the shape YYYY-MM-DD
\* is stored as midnight UTC and read back as YYYY-MM-DDT00:00:00+00:00;
\* a text already of that shape reads back unchanged.
sMidnight == <<"T","0","0",":","0","0",":","0","0","+","0","0",":","0","0">>

IsIsoDate(s) ==
  /\ Len(s) = 10
  /\ \A k \in {1, 2, 3, 4, 6, 7, 9, 10} : IsDigit(s[k])
  /\ s[5] = "-"
  /\ s[8] = "-"

IsIsoTimestamp(s) ==
  /\ Len(s) = 25
  /\ IsIsoDate(SubSeq(s, 1, 10))
  /\ SubSeq(s, 11, 25) = sMidnight

\* texts the column accepts (others make the whole insert fail)
PgDateOk(s) == IsIsoDate(s) \/ IsIsoTimestamp(s)

PgTimestamptz(s) == IF IsIsoDate(s) THEN s \o sMidnight ELSE s

\* scale of DECIMAL(20, 8)
PgScale == 8

\* a number as a DECIMAL(20, 8) column returns it: rounded to 8 places,
\* half away from zero
PgNumeric(x) ==
  LET p == Pow10(PgScale)
  IN  IF p % x.d = 0 THEN x
      ELSE LET a == AbsInt(x.n)
               q == ((a \div x.d) * p) + (((a % x.d) * p) \div x.d)
               r == ((a % x.d) * p) % x.d
               m == IF 2 * r >= x.d THEN q + 1 ELSE q
           IN  Rat(IF x.n < 0 THEN -m ELSE m, p)

\* JSON.stringify turns NaN into null; a NOT NULL column rejects it
InsertableTrade(t) ==
  /\ PgDateOk(t.entry_date)
  /\ ~t.entry_price.nan
  /\ ~t.position_size.nan

\* the record as the table holds and returns it
StoredTrade(t) ==
  [t EXCEPT !.entry_date = PgTimestamptz(t.entry_date),
            !.entry_price = PgNumeric(t.entry_price),
            !.position_size = PgNumeric(t.position_size),
            !.exit_price = IF @ = <<>> \/ @[1].nan THEN <<>>
                           ELSE <<PgNumeric(@[1])>>,
            !.profit_loss = IF @ = <<>> THEN <<>> ELSE <<PgNumeric(@[1])>>]

\* `${a}_${b}_${c}_${d}`: a number prints as one canonical text, so the
\* four parts identify the key
TradeKey(symbol, date, price, size) == <<symbol, date, price, size>>


(***************************************************************************)
(* State                                                                   *)
(***************************************************************************)
VARIABLES
  file,     \* the rows of the export file the requests upload
  store,    \* the trades table: the stored records, in insertion order
  calls,    \* the import requests, by call id
  today,    \* index of the current day in Days
  exRow,    \* extractor harness: the row under test
  exOut,    \* extractor harness: the last extractor applied and its result
  syncs,    \* the brokerage sync requests, by call id
  book      \* the orders the brokerage holds for the account today

vars == <<file, store, calls, today, exRow, exOut, syncs, book>>

CallIds == {1, 2}

Users == {"u1", "u2"}

\* the two deployed import functions
Fns == {"auto", "groww"}

\* a sync request before it arrives: the credentials row it reads, the
\* brokerage's answer to its orders request, the completed orders and the
\* P&L map it keeps, its snapshot of the stored
\* order ids, the records it inserts and its response
IdleSync ==
  [pc |-> "idle", user |-> "u1", credentials |-> <<>>, orders |-> <<>>,
   zerodhaTrades |-> <<>>,
   positionsFetched |-> FALSE, positionsMap |-> <<>>,
   existingTradeIds |-> {}, newTrades |-> <<>>, fetches |-> 0, reads |-> 0,
   response |-> <<>>]

IdleCall ==
  [pc |-> "idle", fn |-> "auto", user |-> "u1", isArray |-> TRUE,
   trades |-> <<>>, i |-> 1,
   existingTradeKeys |-> {}, transformedTrades |-> <<>>,
   skipped |-> 0, errors |-> 0, withPnL |-> 0, withoutPnL |-> 0,
   errorDetails |-> <<>>, reads |-> 0, inserts |-> 0, response |-> <<>>]


\* a select without the filter on user_id
ExistingKeysAnyUser(u) ==
  { TradeKey(store[k].symbol, store[k].entry_date, store[k].entry_price,
             store[k].position_size) : k \in 1..Len(store) }

\* a select that reads only the trades a file import stored
ExistingKeysImportedOnly(u) ==
  { TradeKey(store[k].symbol, store[k].entry_date, store[k].entry_price,
             store[k].position_size) :
      k \in { j \in 1..Len(store) : /\ store[j].user_id = u
                                     /\ store[j].notes.kind = "import" } }

\* the select of lines 72-81: keys rebuilt from the user's stored records
ExistingKeys(u) ==
  { TradeKey(store[k].symbol, store[k].entry_date, store[k].entry_price,
             store[k].position_size) :
      k \in { j \in 1..Len(store) : store[j].user_id = u } }

\* entryPrice, line 279
EntryPrice(p) == IF GtZero(p.buyPrice) THEN p.buyPrice ELSE p.sellPrice

\* tradeKey, line 281
CandidateKey(p) == TradeKey(p.symbol, p.tradeDate, EntryPrice(p), p.quantity)

\* a presence test that lets a zero P&L through
HasPnLAnyNumber(p) == ~isNaN(p.pnl)

\* hasPnL, line 288
HasPnL(p) == ~isNaN(p.pnl) /\ ~EqZero(p.pnl)

\* positionType, lines 296-301 (the Groww-only import has no hint test)
PositionType(fn, p) ==
  IF p.tradeType = sBoth
    THEN (IF NumLt(p.buyPrice, p.sellPrice) THEN "long" ELSE "short")
  ELSE IF fn = "auto" /\ (Includes(p.tradeType, sSell)
                           \/ Includes(p.tradeType, sShort))
    THEN "short"
  ELSE "long"

\* a record that carries the sell price as exit price whenever there is one
NormalizedTradeExitAnySell(fn, user, p) ==
  [user_id |-> user, symbol |-> p.symbol, entry_date |-> p.tradeDate,
   entry_price |-> EntryPrice(p),
   exit_price |-> IF GtZero(p.sellPrice) THEN <<p.sellPrice>> ELSE <<>>,
   position_size |-> MathAbs(p.quantity),
   position_type |-> PositionType(fn, p),
   profit_loss |-> IF HasPnL(p) THEN <<p.pnl>> ELSE <<>>,
   notes |-> [kind |-> "import", broker |-> p.broker,
              category |-> p.category]]

\* a record that carries the quantity with its sign
NormalizedTradeSignedSize(fn, user, p) ==
  [user_id |-> user, symbol |-> p.symbol, entry_date |-> p.tradeDate,
   entry_price |-> EntryPrice(p),
   exit_price |-> IF GtZero(p.buyPrice) /\ GtZero(p.sellPrice)
                    THEN <<p.sellPrice>> ELSE <<>>,
   position_size |-> p.quantity,
   position_type |-> PositionType(fn, p),
   profit_loss |-> IF HasPnL(p) THEN <<p.pnl>> ELSE <<>>,
   notes |-> [kind |-> "import", broker |-> p.broker,
              category |-> p.category]]

\* the record pushed to transformedTrades, lines 308-319
NormalizedTrade(fn, user, p) ==
  [user_id |-> user, symbol |-> p.symbol, entry_date |-> p.tradeDate,
   entry_price |-> EntryPrice(p),
   exit_price |-> IF GtZero(p.buyPrice) /\ GtZero(p.sellPrice)
                    THEN <<p.sellPrice>> ELSE <<>>,
   position_size |-> MathAbs(p.quantity),
   position_type |-> PositionType(fn, p),
   profit_loss |-> IF HasPnL(p) THEN <<p.pnl>> ELSE <<>>,
   notes |-> [kind |-> "import", broker |-> p.broker,
              category |-> p.category]]

\* a loop body that counts the P&L presence before the duplicate test
AcceptCandidateCountFirst(c, p) ==
  IF CandidateKey(p) \in c.existingTradeKeys
    THEN [c EXCEPT !.withPnL = IF HasPnL(p) THEN @ + 1 ELSE @,
                   !.withoutPnL = IF HasPnL(p) THEN @ ELSE @ + 1,
                   !.skipped = @ + 1, !.i = @ + 1]
    ELSE [c EXCEPT !.withPnL = IF HasPnL(p) THEN @ + 1 ELSE @,
                   !.withoutPnL = IF HasPnL(p) THEN @ ELSE @ + 1,
                   !.transformedTrades =
                     Append(@, NormalizedTrade(c.fn, c.user, p)),
                   !.i = @ + 1]

\* body of the row loop after a candidate was extracted, lines 276-319
AcceptCandidate(c, p) ==
  IF CandidateKey(p) \in c.existingTradeKeys
    THEN [c EXCEPT !.skipped = @ + 1, !.i = @ + 1]
    ELSE [c EXCEPT !.withPnL = IF HasPnL(p) THEN @ + 1 ELSE @,
                   !.withoutPnL = IF HasPnL(p) THEN @ ELSE @ + 1,
                   !.transformedTrades =
                     Append(@, NormalizedTrade(c.fn, c.user, p)),
                   !.i = @ + 1]

\* a || b for extractor results
FirstNonNull(a, b) == IF a # Null THEN a ELSE b

\* a loop body that passes an unparsed row over without counting it
AutoOutcomeSilent(c, parsedTrade) ==
  IF parsedTrade = Null
    THEN [c EXCEPT !.i = @ + 1]
    ELSE AcceptCandidate(c, parsedTrade[1])

\* a loop body that gives up the batch at the first unparsed row
AutoOutcomeAbort(c, parsedTrade) ==
  IF parsedTrade = Null
    THEN [c EXCEPT !.errorDetails = Append(@, c.i + 1),
                   !.errors = @ + 1, !.i = Len(c.trades) + 1]
    ELSE AcceptCandidate(c, parsedTrade[1])

\* lines 264-319 of the auto-detecting import: an unparsed row is an error
AutoOutcome(c, parsedTrade) ==
  IF parsedTrade = Null
    THEN [c EXCEPT !.errorDetails = Append(@, c.i + 1),
                   !.errors = @ + 1, !.i = @ + 1]
    ELSE AcceptCandidate(c, parsedTrade[1])

\* one iteration of the row loop of the auto-detecting import: Zerodha
\* first, then Groww
AutoRow(c, day) ==
  AutoOutcome(c, FirstNonNull(parseZerodhaRow(c.trades[c.i], day),
                              parseGrowwRow(c.trades[c.i])))

\* lines 199-245 of the Groww-only import: an unparsed row is passed over
GrowwOutcome(c, parsedTrade) ==
  IF parsedTrade = Null
    THEN [c EXCEPT !.i = @ + 1]
    ELSE AcceptCandidate(c, parsedTrade[1])

\* one iteration of the row loop of the Groww-only import
GrowwRow(c) == GrowwOutcome(c, parseGrowwRowOnly(c.trades[c.i]))

Report(c, imported, w, wo) ==
  [totalRows |-> Len(c.trades), imported |-> imported,
   skipped |-> c.skipped, errors |-> c.errors,
   withPnL |-> w, withoutPnL |-> wo, errorDetails |-> c.errorDetails]

Failure(status) == [success |-> FALSE, status |-> status, report |-> <<>>]

Success(rep) == [success |-> TRUE, status |-> 200, report |-> <<rep>>]


(***************************************************************************)
(* Inputs                                                                  *)
(***************************************************************************)
sDay1 == <<"2","0","2","4","-","0","3","-","1","5">>
sDay2 == <<"2","0","2","4","-","0","3","-","1","6">>
sDay1DMY == <<"1","5","-","0","3","-","2","0","2","4">>

\* new Date().toISOString().split('T')[0] on successive days
Days == <<sDay1, sDay2>>

\* longest batch a request carries
MaxLen == 2

\* a tradebook row both functions parse; its date and numbers read back
\* from the table as they were written
rowTcs ==
  ("Symbol" :> <<"T","C","S">>) @@ ("Date" :> (sDay1 \o sMidnight)) @@
  ("Buy date" :> (sDay1 \o sMidnight)) @@ ("Quantity" :> <<"1","0">>) @@
  ("Price" :> <<"3","4","0","0">>) @@ ("Buy price" :> <<"3","4","0","0">>) @@
  ("Sell Price" :> <<"3","4","5","0">>) @@ ("P&L" :> <<"5","0","0">>)

\* a sell recorded with a negative quantity; its P&L cell is not a number
rowNeg ==
  ("Symbol" :> <<"I","N","F","Y">>) @@ ("Date" :> (sDay1 \o sMidnight)) @@
  ("Buy date" :> (sDay1 \o sMidnight)) @@ ("Quantity" :> <<"-","5">>) @@
  ("Price" :> <<"1","0",".","5">>) @@ ("Buy price" :> <<"1","0",".","5">>) @@
  ("Type" :> <<"s","e","l","l">>) @@ ("P&L" :> <<"N","/","A">>)

\* a row dated by calendar day only, without realized P&L
rowDay ==
  ("Symbol" :> <<"N","I","F","T","Y">>) @@ ("Date" :> sDay1) @@
  ("Buy date" :> sDay1DMY) @@ ("Quantity" :> <<"5","0">>) @@
  ("Price" :> <<"1","2","0">>) @@ ("Buy price" :> <<"1","2","0">>) @@ ("P&L" :> <<"0">>)

\* a summary line of the export
rowSummary == ("Symbol" :> <<"S","u","m","m","a","r","y">>) @@ ("Quantity" :> <<>>)

\* a data row that lacks price and date
rowBad == ("Symbol" :> <<"W","I","P","R","O">>) @@ ("Quantity" :> <<"1","0">>)

\* a P&L-report row: aggregate values, no date
rowReport ==
  ("Symbol" :> <<"H","D","F","C">>) @@ ("Quantity" :> <<"1","0","0">>) @@
  ("Buy Value" :> <<"1","0","0","0","0">>) @@ ("Sell Value" :> <<"1","0","5","0","0">>) @@
  ("Realized P&L" :> <<"5","0","0">>)

Rows == {rowTcs, rowNeg, rowDay, rowSummary, rowBad, rowReport}

RECURSIVE SeqsUpTo(_, _)
SeqsUpTo(S, n) ==
  IF n = 0 THEN {<<>>}
  ELSE LET shorter == SeqsUpTo(S, n - 1)
       IN  shorter \cup { Append(q, x) : q \in shorter, x \in S }

Batches == SeqsUpTo(Rows, MaxLen)

(***************************************************************************)
(* The import request handler, one action per stretch between awaits       *)
(***************************************************************************)
\* a handler that goes on to the read whatever the body holds
RequestUnchecked(c, fn, u, authOk, isArray) ==
  /\ calls[c].pc = "idle"
  /\ calls' = [calls EXCEPT ![c] =
       IF ~authOk
         THEN [@ EXCEPT !.pc = "done", !.fn = fn, !.user = u,
                        !.isArray = isArray,
                        !.response = <<Failure(500)>>]
       ELSE [@ EXCEPT !.pc = "read", !.fn = fn, !.user = u,
                      !.isArray = isArray,
                      !.trades = IF isArray THEN file ELSE <<>>]]
  /\ UNCHANGED <<file, store, today, exRow, exOut, syncs, book>>

\* lines 41-66: authentication and the input check; the body's `trades` is
\* the file's rows, or not an array
Request(c, fn, u, authOk, isArray) ==
  /\ calls[c].pc = "idle"
  /\ calls' = [calls EXCEPT ![c] =
       IF ~authOk
         THEN [@ EXCEPT !.pc = "done", !.fn = fn, !.user = u,
                        !.isArray = isArray,
                        !.response = <<Failure(500)>>]
       ELSE IF ~isArray \/ file = <<>>
         THEN [@ EXCEPT !.pc = "done", !.fn = fn, !.user = u,
                        !.isArray = isArray,
                        !.response = <<Failure(400)>>]
       ELSE [@ EXCEPT !.pc = "read", !.fn = fn, !.user = u,
                      !.trades = file]]
  /\ UNCHANGED <<file, store, today, exRow, exOut, syncs, book>>

\* lines 72-88: the one read of the user's stored trades
ReadExisting(c) ==
  /\ calls[c].pc = "read"
  /\ calls' = [calls EXCEPT ![c] =
       [@ EXCEPT !.pc = "loop", !.reads = @ + 1,
                 !.existingTradeKeys = ExistingKeys(calls[c].user)]]
  /\ UNCHANGED <<file, store, today, exRow, exOut, syncs, book>>

\* a row loop that writes each accepted trade to the table as it goes
ProcessRowStoring(c) ==
  /\ calls[c].pc = "loop"
  /\ calls[c].i <= Len(calls[c].trades)
  /\ calls' = [calls EXCEPT ![c] =
       IF calls[c].fn = "auto" THEN AutoRow(@, Days[today])
       ELSE GrowwRow(@)]
  /\ store' = IF Len(calls'[c].transformedTrades)
                   > Len(calls[c].transformedTrades)
                THEN Append(store,
                       StoredTrade(calls'[c].transformedTrades[
                                     Len(calls'[c].transformedTrades)]))
                ELSE store
  /\ UNCHANGED <<file, today, exRow, exOut, syncs, book>>

\* lines 252-332: one iteration of the row loop
ProcessRow(c) ==
  /\ calls[c].pc = "loop"
  /\ calls[c].i <= Len(calls[c].trades)
  /\ calls' = [calls EXCEPT ![c] =
       IF calls[c].fn = "auto" THEN AutoRow(@, Days[today])
       ELSE GrowwRow(@)]
  /\ UNCHANGED <<file, store, today, exRow, exOut, syncs, book>>

\* lines 334-351: nothing accepted, report without touching the table
ReturnEmpty(c) ==
  /\ calls[c].pc = "loop"
  /\ calls[c].i > Len(calls[c].trades)
  /\ calls[c].transformedTrades = <<>>
  /\ calls' = [calls EXCEPT ![c] =
       [@ EXCEPT !.pc = "done",
                 !.response = <<Success(Report(calls[c], 0, 0, 0))>>]]
  /\ UNCHANGED <<file, store, today, exRow, exOut, syncs, book>>

\* the key of a stored record
StoredKey(t) == TradeKey(t.symbol, t.entry_date, t.entry_price, t.position_size)

\* an insert under a uniqueness constraint on (user, key) that drops the
\* conflicting records
InsertedUnlessPresent(ts) ==
  SelectSeq([k \in 1..Len(ts) |-> StoredTrade(ts[k])],
            LAMBDA t : \A j \in 1..Len(store) :
                         ~(store[j].user_id = t.user_id
                           /\ StoredKey(store[j]) = StoredKey(t)))

\* the records a bulk insert adds to the table
Inserted(ts) == [k \in 1..Len(ts) |-> StoredTrade(ts[k])]

\* an insert that writes the records one by one and keeps those written
\* before the failure
InsertTradesPartial(c, dbOk) ==
  /\ calls[c].pc = "loop"
  /\ calls[c].i > Len(calls[c].trades)
  /\ calls[c].transformedTrades # <<>>
  /\ LET ts == calls[c].transformedTrades
         ok == dbOk /\ \A k \in 1..Len(ts) : InsertableTrade(ts[k])
     IN  /\ store' = IF ok THEN store \o Inserted(ts)
                            ELSE store \o Inserted(SubSeq(ts, 1, Len(ts) - 1))
         /\ calls' = [calls EXCEPT ![c] =
              [@ EXCEPT !.pc = "done", !.inserts = @ + 1,
                        !.response =
                          IF ok
                            THEN <<Success(Report(calls[c], Len(ts),
                                     calls[c].withPnL, calls[c].withoutPnL))>>
                            ELSE <<Failure(500)>>]]
  /\ UNCHANGED <<file, today, exRow, exOut, syncs, book>>

\* lines 353-381: the one bulk insert; it fails as a whole when a record
\* is rejected or the table is unavailable
InsertTrades(c, dbOk) ==
  /\ calls[c].pc = "loop"
  /\ calls[c].i > Len(calls[c].trades)
  /\ calls[c].transformedTrades # <<>>
  /\ LET ts == calls[c].transformedTrades
         ok == dbOk /\ \A k \in 1..Len(ts) : InsertableTrade(ts[k])
     IN  /\ store' = IF ok THEN store \o Inserted(ts) ELSE store
         /\ calls' = [calls EXCEPT ![c] =
              [@ EXCEPT !.pc = "done", !.inserts = @ + 1,
                        !.response =
                          IF ok
                            THEN <<Success(Report(calls[c], Len(ts),
                                     calls[c].withPnL, calls[c].withoutPnL))>>
                            ELSE <<Failure(500)>>]]
  /\ UNCHANGED <<file, today, exRow, exOut, syncs, book>>

\* no request is being served
Quiet == \A c \in CallIds : calls[c].pc \in {"idle", "done"}

\* midnight passes between two requests
NextDay ==
  /\ today < Len(Days)
  /\ Quiet
  /\ today' = today + 1
  /\ UNCHANGED <<file, store, calls, exRow, exOut, syncs, book>>

\* requests served one at a time, in the order of their ids
RequestInTurn(c) ==
  /\ Quiet
  /\ \A b \in CallIds : b < c => calls[b].pc = "done"
  /\ \E fn \in Fns, u \in Users, authOk \in BOOLEAN, isArray \in BOOLEAN :
       Request(c, fn, u, authOk, isArray)

EmptyRow == ("Symbol" :> <<>>)

Init ==
  /\ file \in Batches
  /\ store = <<>>
  /\ calls = [c \in CallIds |-> IdleCall]
  /\ today = 1
  /\ exRow = EmptyRow
  /\ exOut = [fn |-> "none", out |-> Null]
  /\ syncs = [c \in CallIds |-> IdleSync]
  /\ book = <<>>

Next ==
  \/ \E c \in CallIds : RequestInTurn(c)
  \/ \E c \in CallIds : ReadExisting(c)
  \/ \E c \in CallIds : ProcessRow(c)
  \/ \E c \in CallIds : ReturnEmpty(c)
  \/ \E c \in CallIds, dbOk \in BOOLEAN : InsertTrades(c, dbOk)
  \/ NextDay

Spec == Init /\ [][Next]_vars


(***************************************************************************)
(* Two requests served at the same time                                    *)
(***************************************************************************)
ConcRows == {rowTcs, rowDay}

RequestAnyTime(c) ==
  \E fn \in Fns, u \in Users, authOk \in BOOLEAN, isArray \in BOOLEAN :
    Request(c, fn, u, authOk, isArray)

InitConc ==
  /\ file \in SeqsUpTo(ConcRows, MaxLen)
  /\ store = <<>>
  /\ calls = [c \in CallIds |-> IdleCall]
  /\ today = 1
  /\ exRow = EmptyRow
  /\ exOut = [fn |-> "none", out |-> Null]
  /\ syncs = [c \in CallIds |-> IdleSync]
  /\ book = <<>>

NextConc ==
  \/ \E c \in CallIds : RequestAnyTime(c)
  \/ \E c \in CallIds : ReadExisting(c)
  \/ \E c \in CallIds : ProcessRow(c)
  \/ \E c \in CallIds : ReturnEmpty(c)
  \/ \E c \in CallIds, dbOk \in BOOLEAN : InsertTrades(c, dbOk)

SpecConc == InitConc /\ [][NextConc]_vars

(***************************************************************************)
(* The extractors applied to single rows                                   *)
(***************************************************************************)
ExSymbols ==
  { <<>>,
    <<"S","u","m","m","a","r","y">>,
    <<"T","C","S">>,
    <<"R","E","L","I","A","N","C","E">>,
    <<"N","I","F","T","Y","2","4","J","U","N","F","U","T">>,
    <<"B","A","N","K","N","I","F","T","Y","2","4","5","0","0","C","E">> }

ExQuantities ==
  { <<>>,
    <<"0">>,
    <<"-","5">>,
    <<"1","0","0">>,
    <<"a","b","c">> }

ExBuyPrices ==
  { <<>>,
    <<"-","3">>,
    <<"3","4","0","0">>,
    <<"x">> }

ExSellPrices ==
  { <<>>,
    <<"3","4","5","0">>,
    <<"-","1">> }

ExBuyValues ==
  { <<>>,
    <<"1","0","0","0","0">>,
    <<"1","0">> }

ExSellValues ==
  { <<>>,
    <<"1","0","5","0","0">> }

ExDates ==
  { <<>>,
    <<"2","0","2","4","-","0","3","-","1","5">>,
    <<"1","5","-","0","3","-","2","0","2","4">>,
    <<"5"," ","M","a","r"," ","2","0","2","4">>,
    <<"s","o","o","n">>,
    <<"1","5"," ","M","A","R"," ","2","0","2","4">>,
    <<"1","5","/","0","3","/","2","0","2","4">> }

ExPnls ==
  { <<>>,
    <<"5","0","0">> }

\* a row carrying the cell texts under the labels both formats read
MkRow(sym, qty, bp, sp, bv, sv, dt, pnl) ==
  ("Symbol" :> sym) @@ ("Quantity" :> qty) @@ ("Price" :> bp) @@
  ("Buy price" :> bp) @@ ("Sell Price" :> sp) @@ ("Buy Value" :> bv) @@
  ("Sell Value" :> sv) @@ ("Date" :> dt) @@ ("Buy date" :> dt) @@
  ("P&L" :> pnl)

ExtractRows ==
  { MkRow(sym, qty, bp, sp, bv, sv, dt, pnl) :
      sym \in ExSymbols, qty \in ExQuantities, bp \in ExBuyPrices,
      sp \in ExSellPrices, bv \in ExBuyValues, sv \in ExSellValues,
      dt \in ExDates, pnl \in ExPnls }

\* the preview dialog's validator, per selected format
sSymbol == <<"S","y","m","b","o","l">>

PreviewMarkers ==
  { <<"S","u","m","m","a","r","y">>,
    <<"S","t","a","t","e","m","e","n","t">>,
    <<"R","e","a","l","i","s","e","d">>,
    <<"U","n","r","e","a","l","i","s","e","d">>,
    <<"C","h","a","r","g","e","s">>,
    <<"T","o","t","a","l">>,
    <<"P","&","L">>,
    <<"E","x","c","h","a","n","g","e">>,
    <<"S","E","B","I">>,
    <<"S","T","T">>,
    <<"S","t","a","m","p">>,
    <<"I","P","F","T">>,
    <<"B","r","o","k","e","r","a","g","e">>,
    <<"G","S","T">>,
    <<"U","n","i","q","u","e"," ","C","l","i","e","n","t">>,
    <<"P","a","r","t","i","c","u","l","a","r","s">> }

\* /[A-Za-z]{2,}/.test(s)
HasTwoLetters(s) ==
  \E i \in 1..(Len(s) - 1) : IsLetter(s[i]) /\ IsLetter(s[i + 1])

\* isHeaderRow
PreviewIsHeaderRow(symbol) ==
  \/ symbol = <<>>
  \/ symbol = sSymbol
  \/ symbol = sStockName
  \/ \E m \in PreviewMarkers : Includes(symbol, m)
  \/ AllDigits(symbol)
  \/ ~HasTwoLetters(symbol)

PreviewSymbol(row, format) ==
  Trim(FirstTruthy(row,
         IF format = "groww" THEN <<"Stock name", "Name", "Scrip Name">>
         ELSE <<"Symbol", "symbol", "SYMBOL", "Scrip Name">>, <<>>))

PreviewQuantity(row, format) ==
  parseFloat(FirstTruthy(row,
               IF format = "groww" THEN <<"Quantity">>
               ELSE <<"Quantity", "quantity", "Qty", "QTY">>, Zero))

\* a price of the Zerodha format: derived from the side's value when the
\* value and the quantity are > 0, read from the price column otherwise
PreviewDerived(value, quantity, price) ==
  IF GtZero(value) /\ GtZero(quantity) THEN NumDiv(value, quantity) ELSE price

PreviewBuyPrice(row, format) ==
  IF format = "groww"
    THEN parseFloat(FirstTruthy(row, <<"Buy price", "Buy Price",
                                       "Avg Buy Price">>, Zero))
    ELSE PreviewDerived(
           parseFloat(FirstTruthy(row, <<"Buy Value", "buy_value",
                                         "BUY VALUE">>, Zero)),
           PreviewQuantity(row, format),
           parseFloat(FirstTruthy(row, <<"Buy Price", "Buy price">>, Zero)))

PreviewSellPrice(row, format) ==
  IF format = "groww"
    THEN parseFloat(FirstTruthy(row, <<"Sell price", "Sell Price",
                                       "Avg Sell Price">>, Zero))
    ELSE PreviewDerived(
           parseFloat(FirstTruthy(row, <<"Sell Value", "sell_value",
                                         "SELL VALUE">>, Zero)),
           PreviewQuantity(row, format),
           parseFloat(FirstTruthy(row, <<"Sell Price", "Sell price">>, Zero)))

\* x <= 0 (false for NaN)
LeZero(x) == ~x.nan /\ x.n <= 0

\* the `valid` flag after the three checks
PreviewValid(symbol, quantity, buyPrice, sellPrice) ==
  /\ ~PreviewIsHeaderRow(symbol)
  /\ ~LeZero(quantity)
  /\ ~(LeZero(buyPrice) /\ LeZero(sellPrice))

validateAndParseRow(row, format) ==
  [valid |-> PreviewValid(PreviewSymbol(row, format),
                          PreviewQuantity(row, format),
                          PreviewBuyPrice(row, format),
                          PreviewSellPrice(row, format)),
   symbol |-> PreviewSymbol(row, format),
   quantity |-> PreviewQuantity(row, format),
   buyPrice |-> PreviewBuyPrice(row, format),
   sellPrice |-> PreviewSellPrice(row, format),
   broker |-> format]

\* the formats the dialog offers
Formats == {"zerodha", "groww"}

ApplyValidateAndParseRow ==
  /\ exOut.fn = "none"
  /\ \E format \in Formats :
       exOut' = [fn |-> "validateAndParseRow",
                 out |-> <<validateAndParseRow(exRow, format)>>]
  /\ UNCHANGED <<file, store, calls, today, exRow, syncs, book>>

ApplyParseZerodhaRow ==
  /\ exOut.fn = "none"
  /\ exOut' = [fn |-> "parseZerodhaRow",
               out |-> parseZerodhaRow(exRow, Days[today])]
  /\ UNCHANGED <<file, store, calls, today, exRow, syncs, book>>

ApplyParseGrowwRow ==
  /\ exOut.fn = "none"
  /\ exOut' = [fn |-> "parseGrowwRow", out |-> parseGrowwRow(exRow)]
  /\ UNCHANGED <<file, store, calls, today, exRow, syncs, book>>

ApplyParseGrowwRowOnly ==
  /\ exOut.fn = "none"
  /\ exOut' = [fn |-> "parseGrowwRowOnly", out |-> parseGrowwRowOnly(exRow)]
  /\ UNCHANGED <<file, store, calls, today, exRow, syncs, book>>

ApplyDetermineCategory ==
  /\ exOut.fn = "none"
  /\ exOut' = [fn |-> "determineCategory",
               out |-> <<[category |->
                            determineCategory(ZerodhaSymbol(exRow))]>>]
  /\ UNCHANGED <<file, store, calls, today, exRow, syncs, book>>

InitExtract ==
  /\ file = <<>>
  /\ store = <<>>
  /\ calls = [c \in CallIds |-> IdleCall]
  /\ today = 1
  /\ exRow \in ExtractRows
  /\ exOut = [fn |-> "none", out |-> Null]
  /\ syncs = [c \in CallIds |-> IdleSync]
  /\ book = <<>>

NextExtract ==
  \/ ApplyParseZerodhaRow
  \/ ApplyParseGrowwRow
  \/ ApplyParseGrowwRowOnly
  \/ ApplyDetermineCategory
  \/ ApplyValidateAndParseRow

SpecExtract == InitExtract /\ [][NextExtract]_vars


(***************************************************************************)
(* Properties of the import request                                        *)
(***************************************************************************)
\* what the row loop extracts from a row: lines 255-262 of the
\* auto-detecting import, line 197 of the Groww-only import
Candidate(fn, row, day) ==
  IF fn = "auto"
    THEN FirstNonNull(parseZerodhaRow(row, day), parseGrowwRow(row))
    ELSE parseGrowwRowOnly(row)

LoopEnded(c) == c.pc = "loop" /\ c.i > Len(c.trades)

Succeeded(c) == c.pc = "done" /\ c.response # <<>> /\ c.response[1].success

ReportOf(c) == c.response[1].report[1]

\* the rows of a call's batch that yield a candidate
ParsedRows(c) ==
  { j \in 1..Len(c.trades) : Candidate(c.fn, c.trades[j], Days[today]) # Null }

RowKey(c, j) == CandidateKey(Candidate(c.fn, c.trades[j], Days[today])[1])

\* the identity keys of the batch that the user's stored trades lack
NewKeys(c) == { RowKey(c, j) : j \in ParsedRows(c) } \ c.existingTradeKeys

\* C1: when the row loop of a call ends, one trade is accepted per identity
\* key that is new to the user's stored trades (the first row yielding it),
\* and every other row that yields a candidate is counted in skipped.
C1_OncePerKeyInBatch ==
  \A c \in CallIds :
    LoopEnded(calls[c]) =>
      /\ Len(calls[c].transformedTrades) = Cardinality(NewKeys(calls[c]))
      /\ calls[c].skipped =
           Cardinality(ParsedRows(calls[c])) - Cardinality(NewKeys(calls[c]))

\* C2: when the same user imports the same file twice through the same
\* function, one call after the other, and the first call had N' valid rows
\* (imported + skipped, at least one), the second call reports imported = 0
\* and skipped = N'.
C2_SecondImportSkipsAll ==
  (/\ Succeeded(calls[1]) /\ Succeeded(calls[2])
   /\ calls[1].user = calls[2].user
   /\ calls[1].fn = calls[2].fn
   /\ ReportOf(calls[1]).imported + ReportOf(calls[1]).skipped >= 1)
  => /\ ReportOf(calls[2]).imported = 0
     /\ ReportOf(calls[2]).skipped =
          ReportOf(calls[1]).imported + ReportOf(calls[1]).skipped

\* C3: with import calls served one at a time, no two stored trades of one
\* user share the identity key (symbol, entry date, entry price, position
\* size).
C3_NoDuplicateIdentity ==
  \A j1, j2 \in 1..Len(store) :
    (j1 # j2 /\ store[j1].user_id = store[j2].user_id)
      => StoredKey(store[j1]) # StoredKey(store[j2])

\* every row of the batch is a non-data marker row for the call's function
OnlyMarkerRows(c) ==
  /\ c.trades # <<>>
  /\ \A j \in 1..Len(c.trades) :
       IF c.fn = "auto"
         THEN ZerodhaIsMarker(ZerodhaSymbol(c.trades[j]))
              /\ GrowwIsMarker(GrowwSymbol(c.trades[j]))
         ELSE GrowwIsMarker(GrowwSymbol(c.trades[j]))

\* C5: a call whose batch holds only marker rows reports imported = 0,
\* errors = 0 and an empty errorDetails list.
C5_MarkerRowsAreNoErrors ==
  \A c \in CallIds :
    (Succeeded(calls[c]) /\ OnlyMarkerRows(calls[c]))
      => /\ ReportOf(calls[c]).imported = 0
         /\ ReportOf(calls[c]).errors = 0
         /\ ReportOf(calls[c]).errorDetails = <<>>


\* what a step of call c does to the P&L of the trade it accepts or stores
PnLOfAccepted(p, t, before, after) ==
  IF isNaN(p.pnl) \/ EqZero(p.pnl)
    THEN /\ t.profit_loss = <<>>
         /\ after.withoutPnL = before.withoutPnL + 1
         /\ after.withPnL = before.withPnL
    ELSE /\ t.profit_loss = <<p.pnl>>
         /\ after.withPnL = before.withPnL + 1
         /\ after.withoutPnL = before.withoutPnL

PnLOfStored(ts, rep) ==
  /\ \A k \in 1..Len(ts) :
       store'[Len(store) + k].profit_loss = ts[k].profit_loss
  /\ rep.withPnL = Cardinality({ k \in 1..Len(ts) : ts[k].profit_loss # <<>> })
  /\ rep.withoutPnL =
       Cardinality({ k \in 1..Len(ts) : ts[k].profit_loss = <<>> })

PnLStep(c) ==
  /\ (/\ calls[c].pc = "loop"
      /\ Len(calls'[c].transformedTrades)
           = Len(calls[c].transformedTrades) + 1)
     => PnLOfAccepted(
          Candidate(calls[c].fn, calls[c].trades[calls[c].i], Days[today])[1],
          calls'[c].transformedTrades[Len(calls'[c].transformedTrades)],
          calls[c], calls'[c])
  /\ (calls[c].pc = "loop" /\ Succeeded(calls'[c]) /\ Len(store') > Len(store))
     => PnLOfStored(calls[c].transformedTrades, ReportOf(calls'[c]))

\* C10: a row accepted with a realized P&L of 0 or of unparseable text gets
\* profit_loss absent and adds one to withoutPnL; a row with a finite
\* non-zero P&L gets that value and adds one to withPnL; the insert stores
\* the trades with the same presence and value, and the report carries the
\* two counts.
C10_PnLPresence == [][\A c \in CallIds : PnLStep(c)]_vars

\* C10 witness: a call has stored a trade without P&L and a trade with P&L
\* and reported one of each.
C10_Witness ==
  \E c \in CallIds :
    /\ Succeeded(calls[c])
    /\ ReportOf(calls[c]).withPnL >= 1
    /\ ReportOf(calls[c]).withoutPnL >= 1
    /\ \E j1, j2 \in 1..Len(store) :
         store[j1].profit_loss = <<>> /\ store[j2].profit_loss # <<>>

(***************************************************************************)
(* Properties of overlapping import requests                               *)
(***************************************************************************)
\* the stored trades of user u under identity key k
StoredUnder(u, k) ==
  { j \in 1..Len(store) : store[j].user_id = u /\ StoredKey(store[j]) = k }

\* the record row j of call c's batch is stored as
RowStored(c, j) ==
  StoredTrade(NormalizedTrade(c.fn, c.user,
                Candidate(c.fn, c.trades[j], Days[today])[1]))

\* rows j1 of call a and j2 of call b carry one identity key that neither
\* call found in its snapshot of the stored keys
RacePair(a, j1, b, j2) ==
  /\ StoredKey(RowStored(a, j1)) = StoredKey(RowStored(b, j2))
  /\ StoredKey(RowStored(a, j1)) \notin (a.existingTradeKeys
                                           \cup b.existingTradeKeys)
  /\ RowKey(a, j1) \notin a.existingTradeKeys
  /\ RowKey(b, j2) \notin b.existingTradeKeys

\* C4: when two calls of one user have both succeeded and a row of each
\* carries the same identity key, absent from both calls' snapshots of the
\* stored keys (each read its snapshot before the other's insert), the
\* table holds at least two trades of that user under that key.
C4_OverlappingImportsBothInsert ==
  \A c1, c2 \in CallIds :
    (c1 # c2 /\ Succeeded(calls[c1]) /\ Succeeded(calls[c2])
       /\ calls[c1].user = calls[c2].user)
    => \A j1 \in ParsedRows(calls[c1]), j2 \in ParsedRows(calls[c2]) :
         RacePair(calls[c1], j1, calls[c2], j2)
           => Cardinality(StoredUnder(calls[c1].user,
                            StoredKey(RowStored(calls[c1], j1)))) >= 2

\* C4 witness: both calls of one user succeeded on empty snapshots, and the
\* table holds two trades under a key that equals the key built from a row
\* (so a sequential second call would have skipped it).
C4_Witness ==
  /\ Succeeded(calls[1]) /\ Succeeded(calls[2])
  /\ calls[1].user = calls[2].user
  /\ calls[1].existingTradeKeys = {} /\ calls[2].existingTradeKeys = {}
  /\ \E j \in ParsedRows(calls[1]) :
       /\ RowKey(calls[1], j) = StoredKey(RowStored(calls[1], j))
       /\ Cardinality(StoredUnder(calls[1].user, RowKey(calls[1], j))) >= 2
       /\ \E j2 \in ParsedRows(calls[2]) :
            RacePair(calls[1], j, calls[2], j2)


(***************************************************************************)
(* Properties of the extractors                                            *)
(***************************************************************************)
sNIFTY24JUNFUT == <<"N","I","F","T","Y","2","4","J","U","N","F","U","T">>
sRELIANCE == <<"R","E","L","I","A","N","C","E">>
sBANKNIFTY24500CE ==
  <<"B","A","N","K","N","I","F","T","Y","2","4","5","0","0","C","E">>

Extractors == {"parseZerodhaRow", "parseGrowwRow", "parseGrowwRowOnly"}

\* the quantity the applied extractor resolves from the row under test
ResolvedQuantity ==
  IF exOut.fn = "parseZerodhaRow" THEN ZerodhaQuantity(exRow)
  ELSE GrowwQuantity(exRow)

\* C6: an extractor applied to a row whose resolved quantity is zero,
\* negative or not a number returns null.
C6_NonPositiveQuantityIsNull ==
  (exOut.fn \in Extractors /\ ~GtZero(ResolvedQuantity)) => exOut.out = Null

\* C7: every candidate an extractor returns has a buy price or a sell price
\* strictly greater than 0.
C7_SomePricePositive ==
  (exOut.fn \in Extractors /\ exOut.out # Null)
    => (GtZero(exOut.out[1].buyPrice) \/ GtZero(exOut.out[1].sellPrice))

DerivedSide(value, price, quantity, got) ==
  (GtZero(value) /\ GtZero(quantity) /\ ~GtZero(price))
    => (exOut.out # Null /\ got = NumDiv(value, quantity))

\* C8: the Zerodha extractor applied to a data row with quantity q > 0
\* yields buyPrice = buy value / q when the buy value is positive and no
\* buy price column resolves to a positive number, and likewise sellPrice =
\* sell value / q, each side on its own.
C8_DerivedPrice ==
  (exOut.fn = "parseZerodhaRow" /\ ~ZerodhaIsMarker(ZerodhaSymbol(exRow)))
    => /\ DerivedSide(ZerodhaBuyValue(exRow), ZerodhaBuyPrice(exRow),
                      ZerodhaQuantity(exRow),
                      IF exOut.out = Null THEN NaN ELSE exOut.out[1].buyPrice)
       /\ DerivedSide(ZerodhaSellValue(exRow), ZerodhaSellPrice(exRow),
                      ZerodhaQuantity(exRow),
                      IF exOut.out = Null THEN NaN ELSE exOut.out[1].sellPrice)

\* C9: NIFTY24JUNFUT is classified futures, RELIANCE equity and
\* BANKNIFTY24500CE options.
C9_CategoryExamples ==
  exOut.fn = "determineCategory"
    => /\ ZerodhaSymbol(exRow) = sNIFTY24JUNFUT
            => exOut.out[1].category = "futures"
       /\ ZerodhaSymbol(exRow) = sRELIANCE
            => exOut.out[1].category = "equity"
       /\ ZerodhaSymbol(exRow) = sBANKNIFTY24500CE
            => exOut.out[1].category = "options"


(***************************************************************************)
(* Properties of the input check                                           *)
(***************************************************************************)
\* the body of call c carried no array of at least one row
BadInput(c) == ~c.isArray \/ file = <<>>

\* C20: a call whose trades input is not an array or is an empty array ends,
\* in the step that receives it, in a failure response without a report; it
\* takes no snapshot of the stored trades, accepts no row and leaves the
\* table as it was.
C20_BadInputFailsAtOnce ==
  [][\A c \in CallIds :
       (calls[c].pc = "idle" /\ calls'[c].pc # "idle" /\ BadInput(calls'[c]))
         => /\ calls'[c].pc = "done"
            /\ ~calls'[c].response[1].success
            /\ calls'[c].response[1].report = <<>>
            /\ calls'[c].existingTradeKeys = {}
            /\ calls'[c].transformedTrades = <<>>
            /\ store' = store]_vars

\* C20 witness: an authenticated call whose body held rows but no array
\* was refused with status 400 and the table holds nothing.
C20_Witness ==
  \E c \in CallIds :
    /\ calls[c].pc = "done" /\ calls[c].response[1].status = 400
    /\ ~calls[c].isArray /\ file # <<>>
    /\ calls[c].existingTradeKeys = {}
    /\ store = <<>>


(***************************************************************************)
(* Imports of one-row files that vary the prices and the direction hint    *)
(***************************************************************************)
NormBuyPrices == { <<>>, <<"3","4","0","0">>, <<"3","4","5","0">>, <<"-","3">> }

NormSellPrices == { <<>>, <<"3","4","0","0">>, <<"3","4","5","0">> }

NormTypes == { <<>>, <<"s","e","l","l">>, <<"S","H","O","R","T">>, <<"b","u","y">> }

\* a dated row of 10 TCS carrying the prices under the labels both formats
\* read, and the direction hint
MkTradeRow(bp, sp, type) ==
  ("Symbol" :> <<"T","C","S">>) @@ ("Date" :> (sDay1 \o sMidnight)) @@
  ("Buy date" :> (sDay1 \o sMidnight)) @@ ("Quantity" :> <<"1","0">>) @@
  ("Price" :> bp) @@ ("Buy price" :> bp) @@ ("Sell Price" :> sp) @@
  ("Type" :> type) @@ ("P&L" :> <<"5","0","0">>)

\* the row {Symbol TCS, Quantity 10, Buy Price 3400, Sell Price 3450,
\* Realised P&L 500}
rowScenario ==
  ("Symbol" :> <<"T","C","S">>) @@ ("Quantity" :> <<"1","0">>) @@
  ("Buy Price" :> <<"3","4","0","0">>) @@
  ("Sell Price" :> <<"3","4","5","0">>) @@
  ("Realised P&L" :> <<"5","0","0">>)

\* the same row with a trade date
rowScenarioDated == rowScenario @@ ("Date" :> (sDay1 \o sMidnight))

NormRows ==
  { MkTradeRow(bp, sp, type) :
      bp \in NormBuyPrices, sp \in NormSellPrices, type \in NormTypes }
  \cup {rowScenario, rowScenarioDated}

InitNorm ==
  /\ file \in { <<r>> : r \in NormRows }
  /\ store = <<>>
  /\ calls = [c \in CallIds |-> IdleCall]
  /\ today = 1
  /\ exRow = EmptyRow
  /\ exOut = [fn |-> "none", out |-> Null]
  /\ syncs = [c \in CallIds |-> IdleSync]
  /\ book = <<>>

SpecNorm == InitNorm /\ [][Next]_vars

\* the one row of the call's file, what the loop extracts from it, and the
\* direction hint the row carries for the extractor that produced it
TheRow(c) == c.trades[1]

TheCandidate(c) == Candidate(c.fn, TheRow(c), Days[today])[1]

TheHint(c) ==
  IF c.fn = "auto" /\ parseZerodhaRow(TheRow(c), Days[today]) # Null
    THEN ZerodhaTradeType(TheRow(c))
    ELSE <<>>

\* the call has accepted the row of its file
AcceptedTheRow(c) == LoopEnded(c) /\ Len(c.transformedTrades) = 1

ExpectedPositionType(buyPrice, sellPrice, hint) ==
  IF GtZero(buyPrice) /\ GtZero(sellPrice)
    THEN (IF NumLt(buyPrice, sellPrice) THEN "long" ELSE "short")
  ELSE IF Includes(hint, sSell) \/ Includes(hint, sShort) THEN "short"
  ELSE "long"

\* C11: the accepted trade is long or short by its prices when both are
\* positive (long when buyPrice < sellPrice), whatever the direction hint,
\* and otherwise short exactly when the hint contains "sell" or "short".
C11_PositionType ==
  \A c \in CallIds :
    AcceptedTheRow(calls[c])
      => calls[c].transformedTrades[1].position_type
           = ExpectedPositionType(TheCandidate(calls[c]).buyPrice,
                                  TheCandidate(calls[c]).sellPrice,
                                  TheHint(calls[c]))

\* C12: the Zerodha row {Symbol TCS, Quantity 10, Buy Price 3400, Sell Price
\* 3450, Realised P&L 500}, dated or not, is accepted by the auto-detecting
\* import as one trade with entry price 3400.
C12_ScenarioEntryPrice ==
  \A c \in CallIds :
    (LoopEnded(calls[c]) /\ calls[c].fn = "auto"
       /\ TheRow(calls[c]) \in {rowScenario, rowScenarioDated})
      => /\ Len(calls[c].transformedTrades) = 1
         /\ calls[c].transformedTrades[1].entry_price = Num(3400)

\* C13: the accepted trade carries exit price = sellPrice exactly when
\* buyPrice > 0 and sellPrice > 0 and no exit price otherwise, and is stored
\* so; with no positive buy price its entry price is the sell price.
C13_ExitPrice ==
  \A c \in CallIds :
    AcceptedTheRow(calls[c])
      => /\ calls[c].transformedTrades[1].exit_price
              = IF GtZero(TheCandidate(calls[c]).buyPrice)
                   /\ GtZero(TheCandidate(calls[c]).sellPrice)
                  THEN <<TheCandidate(calls[c]).sellPrice>> ELSE <<>>
         /\ ~GtZero(TheCandidate(calls[c]).buyPrice)
              => calls[c].transformedTrades[1].entry_price
                   = TheCandidate(calls[c]).sellPrice

\* C13 witness: calls have accepted a row with only a sell leg and a row
\* with both legs, the first without and the second with an exit price.
C13_Witness ==
  \E c \in CallIds :
    /\ AcceptedTheRow(calls[c])
    /\ EqZero(TheCandidate(calls[c]).buyPrice)
    /\ GtZero(TheCandidate(calls[c]).sellPrice)
    /\ calls[c].transformedTrades[1].exit_price = <<>>
    /\ calls[c].transformedTrades[1].entry_price
         = TheCandidate(calls[c]).sellPrice


(***************************************************************************)
(* parseDateString applied to dates of the two Groww shapes                *)
(***************************************************************************)
DateDays == {1, 5, 15, 31}

DateYears == { <<"2","0","2","4">>, <<"1","9","9","9">> }

\* the English month abbreviations, January first
MonthAbbrs ==
  << <<"J","a","n">>, <<"F","e","b">>, <<"M","a","r">>, <<"A","p","r">>,
     <<"M","a","y">>, <<"J","u","n">>, <<"J","u","l">>, <<"A","u","g">>,
     <<"S","e","p">>, <<"O","c","t">>, <<"N","o","v">>, <<"D","e","c">> >>

\* a number below 100 in decimal, as written and with two digits
Decimal(n) ==
  IF n < 10 THEN <<DigitChars[n + 1]>>
  ELSE <<DigitChars[(n \div 10) + 1], DigitChars[(n % 10) + 1]>>

TwoDigits(n) == <<DigitChars[(n \div 10) + 1], DigitChars[(n % 10) + 1]>>

Blanks(k) == [j \in 1..k |-> " "]

\* a calendar date written as DD-MM-YYYY
TextDMY(day, month, year) ==
  TwoDigits(day) \o <<"-">> \o TwoDigits(month) \o <<"-">> \o year

\* a calendar date written as D MMM YYYY, the day padded or not, the parts
\* one or two blanks apart
TextDMonY(day, month, year, padded, gap) ==
  (IF padded THEN TwoDigits(day) ELSE Decimal(day)) \o Blanks(gap)
    \o MonthAbbrs[month] \o Blanks(gap) \o year

DateInputs ==
  { [day |-> d, month |-> m, year |-> y, text |-> TextDMY(d, m, y)] :
      d \in DateDays, m \in 1..12, y \in DateYears }
  \cup
  { [day |-> d, month |-> m, year |-> y,
     text |-> TextDMonY(d, m, y, padded, gap)] :
      d \in DateDays, m \in 1..12, y \in DateYears,
      padded \in BOOLEAN, gap \in {1, 2} }

ApplyParseDateString ==
  /\ exOut.fn = "none"
  /\ exOut' = [fn |-> "parseDateString", out |-> <<parseDateString(exRow.text)>>]
  /\ UNCHANGED <<file, store, calls, today, exRow, syncs, book>>

InitDate ==
  /\ file = <<>>
  /\ store = <<>>
  /\ calls = [c \in CallIds |-> IdleCall]
  /\ today = 1
  /\ exRow \in DateInputs
  /\ exOut = [fn |-> "none", out |-> Null]
  /\ syncs = [c \in CallIds |-> IdleSync]
  /\ book = <<>>

NextDate == ApplyParseDateString

SpecDate == InitDate /\ [][NextDate]_vars

\* C14: parseDateString returns, for a date written as DD-MM-YYYY or as
\* D MMM YYYY with an English month abbreviation, the same calendar date as
\* YYYY-MM-DD.
C14_GrowwDateNormalized ==
  exOut.fn = "parseDateString"
    => exOut.out[1] = exRow.year \o <<"-">> \o TwoDigits(exRow.month)
                        \o <<"-">> \o TwoDigits(exRow.day)

\* C14 witness: "5 Mar 2024", the day unpadded, came out as 2024-03-05.
C14_Witness ==
  /\ exOut.fn = "parseDateString"
  /\ exRow.text = <<"5"," ","M","a","r"," ","2","0","2","4">>
  /\ exOut.out[1] = <<"2","0","2","4","-","0","3","-","0","5">>


(***************************************************************************)
(* Properties of the Groww date gate                                       *)
(***************************************************************************)
GrowwExtractors == {"parseGrowwRow", "parseGrowwRowOnly"}

\* the row's buy date and sell date cells, trimmed
BuyDateText(row) == Trim(FirstTruthy(row, <<"Buy date", "Buy Date">>, <<>>))

SellDateText(row) == Trim(FirstTruthy(row, <<"Sell date", "Sell Date">>, <<>>))

\* the text is a date of one of the two supported shapes, or already a
\* calendar date YYYY-MM-DD
ReadableDate(s) ==
  \/ (Len(s) = 10 /\ MatchDMY(s, 1))
  \/ (Len(s) >= 1 /\ MatchDMonY(s, 1) # <<>> /\ FirstDMonY(s) = 1
        /\ \E e \in monthMap : e[1] = MatchDMonY(s, 1)[2])
  \/ IsIsoDate(s)

\* C15: a Groww extractor returns null for a row whose buy and sell dates
\* are both empty or unreadable, and the trade date of every candidate it
\* returns is a calendar date YYYY-MM-DD, never the input text as it came
\* nor a text with an unresolved month.
C15_UnreadableDateRejected ==
  exOut.fn \in GrowwExtractors
    => /\ (~ReadableDate(BuyDateText(exRow)) /\ ~ReadableDate(SellDateText(exRow)))
            => exOut.out = Null
       /\ exOut.out # Null => IsIsoDate(exOut.out[1].tradeDate)


(***************************************************************************)
(* The brokerage sync request handler (sync-zerodha-trades)                *)
(***************************************************************************)
sTokenException == <<"T","o","k","e","n","E","x","c","e","p","t","i","o","n">>
s403 == <<"4","0","3">>
sFailedOrders == <<"F","a","i","l","e","d"," ","t","o"," ","f","e","t","c","h"," ","o","r","d","e","r","s"," ","f","r","o","m"," ","Z","e","r","o","d","h","a",":"," ">>
sFailedPositions == <<"F","a","i","l","e","d"," ","t","o"," ","f","e","t","c","h"," ","p","o","s","i","t","i","o","n","s"," ","f","r","o","m"," ","Z","e","r","o","d","h","a",":"," ">>
sErrorStatus == <<"Z","e","r","o","d","h","a"," ","A","P","I"," ","r","e","t","u","r","n","e","d"," ","e","r","r","o","r"," ","s","t","a","t","u","s">>
sUnauthorized == <<"U","n","a","u","t","h","o","r","i","z","e","d">>
sNetwork == <<"e","r","r","o","r"," ","s","e","n","d","i","n","g"," ","r","e","q","u","e","s","t">>

\* `${response.status}`
StatusText(n) ==
  <<DigitChars[(n \div 100) + 1], DigitChars[((n \div 10) % 10) + 1],
    DigitChars[(n % 10) + 1]>>

\* response.ok
ResponseOk(resp) == resp.status >= 200 /\ resp.status <= 299

\* what a fetch helper throws, as the message of the Error: <<>> when the
\* request succeeds with a "success" envelope
FetchError(resp, failedPrefix) ==
  IF resp.thrown THEN sNetwork
  ELSE IF ~ResponseOk(resp)
    THEN failedPrefix \o StatusText(resp.status) \o <<" ">> \o resp.text
  ELSE IF resp.envelope # "success" THEN sErrorStatus
  ELSE <<>>

\* isTokenError of the catch block, lines 391-392
IsTokenError(errorMessage) ==
  Includes(errorMessage, sTokenException) \/ Includes(errorMessage, s403)

\* the response of the catch block, lines 387-407
SyncCaught(errorMessage) ==
  [success |-> FALSE,
   status |-> IF IsTokenError(errorMessage) THEN 401 ELSE 500,
   isTokenExpired |-> IsTokenError(errorMessage),
   error |-> errorMessage, synced |-> 0, total |-> 0]

\* the three structured refusals of lines 253-294
SyncNotConnected(reason) ==
  [success |-> FALSE, status |-> 401, isTokenExpired |-> TRUE,
   error |-> reason, synced |-> 0, total |-> 0]

SyncDone(synced, total) ==
  [success |-> TRUE, status |-> 200, isTokenExpired |-> FALSE,
   error |-> <<>>, synced |-> synced, total |-> total]

\* a filter that looks at the filled quantity only
FilledOrders(allOrders) ==
  SelectSeq(allOrders, LAMBDA order : GtZero(order.filled_quantity))

\* completedOrders, lines 436-439
CompletedOrders(allOrders) ==
  SelectSeq(allOrders,
            LAMBDA order : order.status = "COMPLETE"
                           /\ GtZero(order.filled_quantity))

\* `${tradingsymbol}_${exchange}_${product}`
PositionKey(x) == <<x.tradingsymbol, x.exchange, x.product>>

\* positionsMap after the forEach of lines 306-309: a later position
\* replaces an earlier one under the same key
PositionsMap(positions) ==
  [k \in { PositionKey(positions[j]) : j \in 1..Len(positions) } |->
     positions[CHOOSE j \in 1..Len(positions) :
                 /\ PositionKey(positions[j]) = k
                 /\ \A j2 \in (j + 1)..Len(positions) :
                      PositionKey(positions[j2]) # k].pnl]

\* pnl || null for positionsMap.get(posKey)
PnlOrNull(map, key) ==
  IF key \notin DOMAIN map \/ Falsy(map[key]) THEN <<>> ELSE <<map[key]>>

WordChars == Letters \cup Digits \cup {"_"}

\* a pattern that finds no order id in any notes
MatchedOrderIdNone(notes) == <<>>

\* match[1] of /Order ID: (\w+)/ on the notes of a synced trade, <<>> when
\* no word character follows
MatchedOrderId(notes) == SubSeq(notes.order_id, 1, RunLen(notes.order_id, 1, WordChars))

\* existingTradeIds, lines 318-328
ExistingTradeIds(u) ==
  { MatchedOrderId(store[k].notes) :
      k \in { j \in 1..Len(store) :
                /\ store[j].user_id = u
                /\ store[j].notes.kind = "sync" } } \ {<<>>}

\* the record built for a completed order, lines 333-348
SyncedTrade(user, zt, map) ==
  [user_id |-> user, symbol |-> zt.tradingsymbol,
   entry_date |-> zt.order_timestamp, entry_price |-> zt.average_price,
   exit_price |-> <<>>, position_size |-> zt.filled_quantity,
   position_type |-> IF zt.transaction_type = "BUY" THEN "long" ELSE "short",
   profit_loss |-> PnlOrNull(map, PositionKey(zt)),
   notes |-> [kind |-> "sync", order_id |-> zt.order_id,
              exchange |-> zt.exchange, product |-> zt.product,
              status |-> zt.status]]

\* newTrades, lines 331-349
NewTrades(user, zerodhaTrades, existingTradeIds, map) ==
  LET fresh == SelectSeq(zerodhaTrades,
                         LAMBDA zt : zt.order_id \notin existingTradeIds)
  IN  [k \in 1..Len(fresh) |-> SyncedTrade(user, fresh[k], map)]


\* longest list of orders a brokerage answer carries
MaxOrders == 2

MkOrder(id, symbol, status, filled, side) ==
  [order_id |-> id, tradingsymbol |-> symbol, exchange |-> "NSE",
   product |-> "MIS", status |-> status, filled_quantity |-> Num(filled),
   average_price |-> Num(100), transaction_type |-> side,
   order_timestamp |-> sDay1 \o sMidnight]

SyncOrders ==
  { MkOrder(<<"A","1">>, <<"I","N","F","Y">>, "COMPLETE", 10, "BUY"),
    MkOrder(<<"B","2">>, <<"T","C","S">>, "OPEN", 5, "SELL"),
    MkOrder(<<"C","3">>, <<"I","N","F","Y">>, "COMPLETE", 0, "BUY"),
    MkOrder(<<"D","4">>, <<"T","C","S">>, "COMPLETE", 5, "SELL") }

MkPosition(symbol, pnl) ==
  [tradingsymbol |-> symbol, exchange |-> "NSE", product |-> "MIS",
   pnl |-> Num(pnl)]

SyncPositions ==
  { <<>>,
    <<MkPosition(<<"I","N","F","Y">>, 250)>>,
    <<MkPosition(<<"I","N","F","Y">>, 0)>> }

\* an answer of the brokerage: an HTTP response, or a fetch that throws
MkResponse(status, text, envelope, data, thrown) ==
  [status |-> status, text |-> text, envelope |-> envelope, data |-> data,
   thrown |-> thrown]

\* the error bodies of the brokerage
ErrorTexts == { sUnauthorized, sTokenException }

FailedResponses ==
  { MkResponse(st, text, "error", <<>>, FALSE) :
      st \in {401, 403, 500}, text \in ErrorTexts }
  \cup { MkResponse(200, <<>>, "error", <<>>, FALSE),
         MkResponse(0, <<>>, "error", <<>>, TRUE) }

\* the answers to an orders request: the account's orders, or a failure
OrderResponses ==
  { MkResponse(200, <<>>, "success", book, FALSE) } \cup FailedResponses

PositionResponses ==
  { MkResponse(200, <<>>, "success", data, FALSE) : data \in SyncPositions }
  \cup FailedResponses

\* the user's row of zerodha_credentials: none, or the three columns
CredentialRows ==
  { <<>> } \cup
  { <<[api_key |-> k, access_token |-> a, token_expires_at |-> e]>> :
      k \in {"", "key"}, a \in {"", "token"}, e \in {<<>>, <<0>>, <<2>>} }

\* a check that does not look at token_expires_at
CredentialsRefusalNoExpiry(credentials, now) ==
  IF credentials = <<>> THEN <<SyncNotConnected("not connected")>>
  ELSE IF credentials[1].api_key = "" \/ credentials[1].access_token = ""
    THEN <<SyncNotConnected("incomplete")>>
  ELSE <<>>

\* lines 251-294: the refusal the credentials row leads to, <<>> when the
\* sync may go on; now is the day of the request
CredentialsRefusal(credentials, now) ==
  IF credentials = <<>> THEN <<SyncNotConnected("not connected")>>
  ELSE IF credentials[1].token_expires_at # <<>>
          /\ credentials[1].token_expires_at[1] < now
    THEN <<SyncNotConnected("expired")>>
  ELSE IF credentials[1].api_key = "" \/ credentials[1].access_token = ""
    THEN <<SyncNotConnected("incomplete")>>
  ELSE <<>>

\* lines 217-236: the client and the authenticated user
SyncRequest(c, u, authOk) ==
  /\ syncs[c].pc = "idle"
  /\ syncs' = [syncs EXCEPT ![c] =
       IF ~authOk
         THEN [@ EXCEPT !.pc = "done", !.user = u,
                        !.response = <<SyncCaught(sUnauthorized)>>]
         ELSE [@ EXCEPT !.pc = "credentials", !.user = u]]
  /\ UNCHANGED <<file, store, calls, today, exRow, exOut, book>>

\* lines 242-294: the read of the user's credentials and the three refusals
ReadCredentials(c, credentials) ==
  /\ syncs[c].pc = "credentials"
  /\ syncs' = [syncs EXCEPT ![c] =
       IF CredentialsRefusal(credentials, today) # <<>>
         THEN [@ EXCEPT !.pc = "done", !.credentials = credentials,
                        !.response = CredentialsRefusal(credentials, today)]
         ELSE [@ EXCEPT !.pc = "orders", !.credentials = credentials]]
  /\ UNCHANGED <<file, store, calls, today, exRow, exOut, book>>

\* lines 297 and 411-444: the orders request; a failure is caught at 387
FetchOrders(c, resp) ==
  /\ syncs[c].pc = "orders"
  /\ syncs' = [syncs EXCEPT ![c] =
       IF FetchError(resp, sFailedOrders) # <<>>
         THEN [@ EXCEPT !.pc = "done", !.fetches = @ + 1,
                        !.orders = <<resp>>,
                        !.response =
                          <<SyncCaught(FetchError(resp, sFailedOrders))>>]
         ELSE [@ EXCEPT !.pc = "positions", !.fetches = @ + 1,
                        !.orders = <<resp>>,
                        !.zerodhaTrades = CompletedOrders(resp.data)]]
  /\ UNCHANGED <<file, store, calls, today, exRow, exOut, book>>

\* a positions request whose failure reaches the catch block of the handler
FetchPositionsOrFail(c, resp) ==
  /\ syncs[c].pc = "positions"
  /\ syncs' = [syncs EXCEPT ![c] =
       IF FetchError(resp, sFailedPositions) # <<>>
         THEN [@ EXCEPT !.pc = "done", !.fetches = @ + 1,
                        !.response =
                          <<SyncCaught(FetchError(resp, sFailedPositions))>>]
         ELSE [@ EXCEPT !.pc = "existing", !.fetches = @ + 1,
                        !.positionsFetched = TRUE,
                        !.positionsMap = PositionsMap(resp.data)]]
  /\ UNCHANGED <<file, store, calls, today, exRow, exOut, book>>

\* lines 302-315 and 446-472: the positions request inside its own try
FetchPositions(c, resp) ==
  /\ syncs[c].pc = "positions"
  /\ syncs' = [syncs EXCEPT ![c] =
       IF FetchError(resp, sFailedPositions) # <<>>
         THEN [@ EXCEPT !.pc = "existing", !.fetches = @ + 1]
         ELSE [@ EXCEPT !.pc = "existing", !.fetches = @ + 1,
                        !.positionsFetched = TRUE,
                        !.positionsMap = PositionsMap(resp.data)]]
  /\ UNCHANGED <<file, store, calls, today, exRow, exOut, book>>

\* the call after the read of the stored order ids, lines 317-361
AfterExisting(s, ids) ==
  IF NewTrades(s.user, s.zerodhaTrades, ids, s.positionsMap) = <<>>
    THEN [s EXCEPT !.pc = "done", !.reads = @ + 1, !.existingTradeIds = ids,
                   !.response = <<SyncDone(0, Len(s.zerodhaTrades))>>]
    ELSE [s EXCEPT !.pc = "insert", !.reads = @ + 1, !.existingTradeIds = ids,
                   !.newTrades =
                     NewTrades(s.user, s.zerodhaTrades, ids, s.positionsMap)]

ReadExistingIds(c) ==
  /\ syncs[c].pc = "existing"
  /\ syncs' = [syncs EXCEPT ![c] =
                 AfterExisting(@, ExistingTradeIds(syncs[c].user))]
  /\ UNCHANGED <<file, store, calls, today, exRow, exOut, book>>

sUnknownError == <<"U","n","k","n","o","w","n"," ","e","r","r","o","r"," ","o","c","c","u","r","r","e","d">>

\* lines 363-385: the bulk insert; an insert error is no Error object
SyncInsert(c, dbOk) ==
  /\ syncs[c].pc = "insert"
  /\ LET ts == syncs[c].newTrades
         ok == dbOk /\ \A k \in 1..Len(ts) : InsertableTrade(ts[k])
     IN  /\ store' = IF ok THEN store \o Inserted(ts) ELSE store
         /\ syncs' = [syncs EXCEPT ![c] =
              [@ EXCEPT !.pc = "done",
                        !.response =
                          IF ok
                            THEN <<SyncDone(Len(ts), Len(syncs[c].zerodhaTrades))>>
                            ELSE <<SyncCaught(sUnknownError)>>]]
  /\ UNCHANGED <<file, calls, today, exRow, exOut, book>>

\* no sync request is being served
SyncQuiet == \A c \in CallIds : syncs[c].pc \in {"idle", "done"}

\* sync requests served one at a time, in the order of their ids
SyncInTurn(c) ==
  /\ SyncQuiet
  /\ \A b \in CallIds : b < c => syncs[b].pc = "done"
  /\ \E u \in Users, authOk \in BOOLEAN : SyncRequest(c, u, authOk)

InitSync ==
  /\ file = <<>>
  /\ store = <<>>
  /\ calls = [c \in CallIds |-> IdleCall]
  /\ today = 1
  /\ exRow = EmptyRow
  /\ exOut = [fn |-> "none", out |-> Null]
  /\ syncs = [c \in CallIds |-> IdleSync]
  /\ book \in SeqsUpTo(SyncOrders, MaxOrders)

NextSync ==
  \/ \E c \in CallIds : SyncInTurn(c)
  \/ \E c \in CallIds, credentials \in CredentialRows :
       ReadCredentials(c, credentials)
  \/ \E c \in CallIds, resp \in OrderResponses : FetchOrders(c, resp)
  \/ \E c \in CallIds, resp \in PositionResponses : FetchPositions(c, resp)
  \/ \E c \in CallIds : ReadExistingIds(c)
  \/ \E c \in CallIds, dbOk \in BOOLEAN : SyncInsert(c, dbOk)

SpecSync == InitSync /\ [][NextSync]_vars


(***************************************************************************)
(* Properties of the brokerage sync                                        *)
(***************************************************************************)
SyncSucceeded(s) == s.pc = "done" /\ s.response[1].success

\* the stored trades that came from a sync
SyncedRecords == { j \in 1..Len(store) : store[j].notes.kind = "sync" }

\* C16: every trade a sync keeps, builds or stores comes from an order with
\* status COMPLETE and filled_quantity > 0, and an order of the brokerage's
\* answer with another status is never stored.
C16_OnlyCompleteOrders ==
  /\ \A j \in SyncedRecords :
       store[j].notes.status = "COMPLETE" /\ GtZero(store[j].position_size)
  /\ \A c \in CallIds :
       /\ \A k \in 1..Len(syncs[c].newTrades) :
            /\ syncs[c].newTrades[k].notes.status = "COMPLETE"
            /\ GtZero(syncs[c].newTrades[k].position_size)
       /\ (syncs[c].orders # <<>>) =>
            \A k \in 1..Len(syncs[c].orders[1].data) :
              syncs[c].orders[1].data[k].status # "COMPLETE"
                => \A j \in SyncedRecords :
                     store[j].notes.order_id
                       # syncs[c].orders[1].data[k].order_id

\* C16 witness: a sync whose answer held an OPEN order with a filled
\* quantity and a COMPLETE one has stored one trade.
C16_Witness ==
  \E c \in CallIds :
    /\ SyncSucceeded(syncs[c])
    /\ syncs[c].response[1].synced = 1
    /\ \E k \in 1..Len(syncs[c].orders[1].data) :
         /\ syncs[c].orders[1].data[k].status = "OPEN"
         /\ GtZero(syncs[c].orders[1].data[k].filled_quantity)
    /\ Cardinality(SyncedRecords) = 1

\* the positions request of the call failed
PositionsFailed(s) == s.fetches = 2 /\ ~s.positionsFetched

\* C17: a sync whose positions request failed goes on: it ends in failure
\* only when the insert fails, the trades it builds are the completed
\* orders whose ids are not stored yet, each with profit_loss absent, and
\* when it succeeds it reports them all as synced.
C17_PositionsFailureTolerated ==
  \A c \in CallIds :
    PositionsFailed(syncs[c])
      => /\ syncs[c].pc = "done"
              => (syncs[c].response[1].success
                  \/ syncs[c].response[1].error = sUnknownError)
         /\ \A k \in 1..Len(syncs[c].newTrades) :
              syncs[c].newTrades[k].profit_loss = <<>>
         /\ syncs[c].pc \in {"insert", "done"}
              => Len(syncs[c].newTrades)
                   = Cardinality({ k \in 1..Len(syncs[c].zerodhaTrades) :
                                     syncs[c].zerodhaTrades[k].order_id
                                       \notin syncs[c].existingTradeIds })
         /\ SyncSucceeded(syncs[c])
              => syncs[c].response[1].synced = Len(syncs[c].newTrades)

\* C17 witness: a sync whose positions request failed has stored a trade
\* without P&L.
C17_Witness ==
  \E c \in CallIds :
    /\ PositionsFailed(syncs[c])
    /\ SyncSucceeded(syncs[c])
    /\ syncs[c].response[1].synced >= 1
    /\ \E j \in SyncedRecords :
         store[j].user_id = syncs[c].user /\ store[j].profit_loss = <<>>

\* the call ended at its orders request
OrdersFailed(s) == s.pc = "done" /\ s.fetches = 1

\* C18: a sync whose orders request failed ends in a failure response with
\* nothing built for insertion, flagged isTokenExpired exactly when the
\* brokerage answered HTTP 401 or 403 or its error text carries
\* TokenException.
C18_OrdersFailureFlag ==
  \A c \in CallIds :
    OrdersFailed(syncs[c])
      => /\ ~syncs[c].response[1].success
         /\ syncs[c].newTrades = <<>>
         /\ syncs[c].response[1].isTokenExpired
              = (\/ (~syncs[c].orders[1].thrown
                     /\ syncs[c].orders[1].status \in {401, 403})
                 \/ Includes(syncs[c].orders[1].text, sTokenException))

\* the credentials row does not let a sync go on
BadCredentials(credentials, now) ==
  \/ credentials = <<>>
  \/ credentials[1].api_key = ""
  \/ credentials[1].access_token = ""
  \/ (credentials[1].token_expires_at # <<>>
      /\ credentials[1].token_expires_at[1] < now)

\* C19: the step that reads a missing credentials row, an expired token or
\* an empty api_key or access_token ends the call with a failure flagged
\* isTokenExpired, with no brokerage request made, no stored trade read and
\* the table as it was.
C19_BadCredentialsRefused ==
  [][\A c \in CallIds :
       (syncs[c].pc = "credentials" /\ syncs'[c].pc # "credentials"
          /\ BadCredentials(syncs'[c].credentials, today))
         => /\ syncs'[c].pc = "done"
            /\ ~syncs'[c].response[1].success
            /\ syncs'[c].response[1].isTokenExpired
            /\ syncs'[c].fetches = 0
            /\ syncs'[c].reads = 0
            /\ store' = store]_vars

\* C19 witness: a call with both keys stored and a token that expired
\* yesterday was refused before any brokerage request.
C19_Witness ==
  \E c \in CallIds :
    /\ syncs[c].pc = "done"
    /\ syncs[c].credentials # <<>>
    /\ syncs[c].credentials[1].api_key # ""
    /\ syncs[c].credentials[1].access_token # ""
    /\ syncs[c].credentials[1].token_expires_at = <<0>>
    /\ syncs[c].response[1].isTokenExpired
    /\ syncs[c].fetches = 0

(***************************************************************************)
(* Properties of the bulk insert and of the report                         *)
(***************************************************************************)
\* a tradebook line whose date cell the table's timestamp column rejects
rowSoon ==
  ("Symbol" :> <<"W","I","P","R","O">>) @@ ("Date" :> <<"s","o","o","n">>) @@
  ("Quantity" :> <<"1","0">>) @@ ("Price" :> <<"2","5","0">>)

\* files mixing records the table takes with records it rejects
InitInsert ==
  /\ file \in SeqsUpTo({rowTcs, rowSoon}, MaxLen)
  /\ store = <<>>
  /\ calls = [c \in CallIds |-> IdleCall]
  /\ today = 1
  /\ exRow = EmptyRow
  /\ exOut = [fn |-> "none", out |-> Null]
  /\ syncs = [c \in CallIds |-> IdleSync]
  /\ book = <<>>

SpecInsert == InitInsert /\ [][Next]_vars

\* call c is at the bulk insert: the loop has ended with trades accepted
AtInsert(c) == LoopEnded(c) /\ c.transformedTrades # <<>>

\* the step of call c is a bulk insert that failed
InsertFailed(c) ==
  /\ AtInsert(calls[c])
  /\ calls'[c].pc = "done"
  /\ ~calls'[c].response[1].success

\* C21: a bulk insert that fails ends the call with one failure response
\* (success = false, no report) and leaves the table as it was, and a batch
\* holding a record the table rejects fails as a whole.
C21_InsertAllOrNothing ==
  [][\A c \in CallIds :
       /\ InsertFailed(c)
            => /\ store' = store
               /\ calls'[c].response = <<Failure(500)>>
               /\ calls'[c].response[1].report = <<>>
       /\ (AtInsert(calls[c]) /\ calls'[c].pc = "done"
            /\ \E k \in 1..Len(calls[c].transformedTrades) :
                 ~InsertableTrade(calls[c].transformedTrades[k]))
            => InsertFailed(c) /\ store' = store]_vars

\* C21 witness: a call that had accepted a trade the table takes and then
\* one it rejects ended in failure and the table is empty.
C21_Witness ==
  \E c \in CallIds :
    /\ calls[c].pc = "done"
    /\ Len(calls[c].transformedTrades) = 2
    /\ InsertableTrade(calls[c].transformedTrades[1])
    /\ ~InsertableTrade(calls[c].transformedTrades[2])
    /\ ~calls[c].response[1].success
    /\ store = <<>>

\* the step of call c accepts the row it processes
Accepts(c) ==
  /\ calls[c].pc = "loop"
  /\ Len(calls'[c].transformedTrades) = Len(calls[c].transformedTrades) + 1

\* the row a step of call c processes, and the trade the step accepted
RowAt(c) == calls[c].trades[calls[c].i]

LastAccepted(c) == c.transformedTrades[Len(c.transformedTrades)]

\* the quantity cell of a row as the extractors read it
RowQuantities(row) == {ZerodhaQuantity(row), GrowwQuantity(row)}

\* C22: the trade a row is accepted as has position_size equal to the
\* absolute value of the row's quantity and greater than 0, and so has
\* every trade a call holds for the bulk insert.
C22_PositionSize ==
  [][\A c \in CallIds :
       /\ Accepts(c)
            => /\ \E q \in RowQuantities(RowAt(c)) :
                    LastAccepted(calls'[c]).position_size = MathAbs(q)
               /\ GtZero(LastAccepted(calls'[c]).position_size)
       /\ \A k \in 1..Len(calls'[c].transformedTrades) :
            GtZero(calls'[c].transformedTrades[k].position_size)]_vars

\* C22 witness: a call is at the bulk insert with a trade of size 5 taken
\* from a row whose quantity is -5.
C22_Witness ==
  \E c \in CallIds :
    /\ AtInsert(calls[c])
    /\ \E j \in 1..Len(calls[c].trades), k \in 1..Len(calls[c].transformedTrades) :
         /\ ZerodhaQuantity(calls[c].trades[j]) = Rat(-5, 1)
         /\ calls[c].transformedTrades[k].symbol = calls[c].trades[j]["Symbol"]
         /\ calls[c].transformedTrades[k].position_size = Num(5)

\* the accepted trades of a call with profit_loss present, and absent
WithPnL(c) ==
  { k \in 1..Len(c.transformedTrades) : c.transformedTrades[k].profit_loss # <<>> }

WithoutPnL(c) ==
  { k \in 1..Len(c.transformedTrades) : c.transformedTrades[k].profit_loss = <<>> }

\* C23: in every report a call returns, withPnL is the number of accepted
\* trades with profit_loss present, withoutPnL the number with it absent,
\* imported the number of accepted trades, and withPnL + withoutPnL =
\* imported.
C23_PnLCounts ==
  \A c \in CallIds :
    Succeeded(calls[c]) =>
      /\ ReportOf(calls[c]).withPnL = Cardinality(WithPnL(calls[c]))
      /\ ReportOf(calls[c]).withoutPnL = Cardinality(WithoutPnL(calls[c]))
      /\ ReportOf(calls[c]).imported = Len(calls[c].transformedTrades)
      /\ ReportOf(calls[c]).withPnL + ReportOf(calls[c]).withoutPnL
           = ReportOf(calls[c]).imported

\* C23 witness: a second call skipped a row as a duplicate and imported one
\* trade, reported with its P&L count.
C23_Witness ==
  /\ Succeeded(calls[2])
  /\ ReportOf(calls[2]).skipped = 1
  /\ ReportOf(calls[2]).imported = 1
  /\ ReportOf(calls[2]).withPnL + ReportOf(calls[2]).withoutPnL = 1

\* C24: a call reads the user's stored trades at most once, before any row
\* is processed, and issues at most one insert, after the last row; a step
\* that processes a row leaves the table alone, the table changes only in
\* a step that issues the insert, and a call that accepted nothing ends
\* without an insert.
C24_OneReadOneWrite ==
  [][\A c \in CallIds :
       /\ calls'[c].reads <= 1
       /\ calls'[c].inserts <= 1
       /\ calls'[c].reads > calls[c].reads
            => /\ calls[c].i = 1
               /\ calls[c].transformedTrades = <<>>
               /\ calls[c].skipped = 0 /\ calls[c].errors = 0
       /\ calls'[c].i > calls[c].i
            => /\ calls[c].reads = 1 /\ calls'[c].reads = 1
               /\ calls'[c].inserts = 0
               /\ store' = store
       /\ calls'[c].inserts > calls[c].inserts
            => /\ calls[c].i > Len(calls[c].trades)
               /\ calls[c].transformedTrades # <<>>
       /\ store' # store
            => \E b \in CallIds : calls'[b].inserts > calls[b].inserts
       /\ (Succeeded(calls'[c]) /\ calls'[c].transformedTrades = <<>>)
            => calls'[c].inserts = 0]_vars

\* C24 witness: a call that processed two rows and accepted both has read
\* once and inserted once, and the table holds the two trades.
C24_Witness ==
  \E c \in CallIds :
    /\ Succeeded(calls[c])
    /\ calls[c].i = 3
    /\ Len(calls[c].transformedTrades) = 2
    /\ calls[c].reads = 1 /\ calls[c].inserts = 1
    /\ Len(store) = 2

\* what the step of call c that processes a row of the auto-detecting
\* import does, by the row's candidate
RowStep(c, p) ==
  /\ calls'[c].i = calls[c].i + 1
  /\ calls'[c].pc = "loop"
  /\ p = Null
       => /\ calls'[c].errors = calls[c].errors + 1
          /\ calls'[c].errorDetails = Append(calls[c].errorDetails, calls[c].i + 1)
          /\ calls'[c].transformedTrades = calls[c].transformedTrades
          /\ calls'[c].skipped = calls[c].skipped
  /\ (p # Null /\ CandidateKey(p[1]) \notin calls[c].existingTradeKeys)
       => /\ Accepts(c)
          /\ calls'[c].errors = calls[c].errors
          /\ calls'[c].skipped = calls[c].skipped
  /\ (p # Null /\ CandidateKey(p[1]) \in calls[c].existingTradeKeys)
       => /\ calls'[c].skipped = calls[c].skipped + 1
          /\ calls'[c].errors = calls[c].errors
          /\ calls'[c].transformedTrades = calls[c].transformedTrades

DistinctIds(orders) ==
  \A j, k \in 1..Len(orders) :
    j # k => orders[j].order_id # orders[k].order_id

\* the stored trades of user u that a sync built from order id
StoredOrder(u, id) ==
  { j \in SyncedRecords : store[j].user_id = u /\ store[j].notes.order_id = id }

\* C26: when two sync calls of one user, served one after the other, both
\* succeed on the same completed orders (each order id once in the
\* brokerage's answer), the second call builds no trade and reports
\* synced = 0, and the table holds each of those orders once for the user.
C26_SyncIdempotent ==
  (/\ SyncSucceeded(syncs[1]) /\ SyncSucceeded(syncs[2])
   /\ syncs[1].user = syncs[2].user
   /\ syncs[1].zerodhaTrades = syncs[2].zerodhaTrades
   /\ DistinctIds(syncs[1].zerodhaTrades))
  => /\ syncs[2].newTrades = <<>>
     /\ syncs[2].response[1].synced = 0
     /\ \A k \in 1..Len(syncs[1].zerodhaTrades) :
          Cardinality(StoredOrder(syncs[1].user,
                                  syncs[1].zerodhaTrades[k].order_id)) = 1

\* C26 witness: the first call stored two completed orders and the second
\* call of the same user, given the same orders, recovered both ids from
\* the stored notes and stored nothing.
C26_Witness ==
  /\ SyncSucceeded(syncs[1]) /\ SyncSucceeded(syncs[2])
  /\ syncs[1].user = syncs[2].user
  /\ syncs[1].zerodhaTrades = syncs[2].zerodhaTrades
  /\ DistinctIds(syncs[1].zerodhaTrades)
  /\ syncs[1].response[1].synced = 2
  /\ syncs[2].response[1].synced = 0
  /\ syncs[2].existingTradeIds
       = { syncs[1].zerodhaTrades[k].order_id : k \in 1..2 }
  /\ Len(store) = 2

\* the export line of the order A1 (INFY, 10 at 100 on day 1), dated by
\* calendar day as a tradebook is, and dated by the timestamp the table
\* renders
orderA1 == MkOrder(<<"A","1">>, <<"I","N","F","Y">>, "COMPLETE", 10, "BUY")

rowOrderDay ==
  ("Symbol" :> <<"I","N","F","Y">>) @@ ("Date" :> sDay1) @@
  ("Quantity" :> <<"1","0">>) @@ ("Price" :> <<"1","0","0">>)

rowOrderStamp ==
  ("Symbol" :> <<"I","N","F","Y">>) @@ ("Date" :> (sDay1 \o sMidnight)) @@
  ("Quantity" :> <<"1","0">>) @@ ("Price" :> <<"1","0","0">>)

BothRows == {rowOrderDay, rowOrderStamp}

BothBooks == {<<>>, <<orderA1>>}

\* neither an import nor a sync is being served
BothQuiet == Quiet /\ SyncQuiet

\* one file import and one brokerage sync, served one after the other in
\* either order
ImportAlone ==
  /\ BothQuiet
  /\ \E fn \in Fns, u \in Users, authOk \in BOOLEAN, isArray \in BOOLEAN :
       Request(1, fn, u, authOk, isArray)

SyncAlone ==
  /\ BothQuiet
  /\ \E u \in Users, authOk \in BOOLEAN : SyncRequest(1, u, authOk)

InitBoth ==
  /\ file \in SeqsUpTo(BothRows, MaxLen)
  /\ store = <<>>
  /\ calls = [c \in CallIds |-> IdleCall]
  /\ today = 1
  /\ exRow = EmptyRow
  /\ exOut = [fn |-> "none", out |-> Null]
  /\ syncs = [c \in CallIds |-> IdleSync]
  /\ book \in BothBooks

NextBoth ==
  \/ ImportAlone
  \/ ReadExisting(1)
  \/ ProcessRow(1)
  \/ ReturnEmpty(1)
  \/ \E dbOk \in BOOLEAN : InsertTrades(1, dbOk)
  \/ SyncAlone
  \/ \E credentials \in CredentialRows : ReadCredentials(1, credentials)
  \/ \E resp \in OrderResponses : FetchOrders(1, resp)
  \/ \E resp \in PositionResponses : FetchPositions(1, resp)
  \/ ReadExistingIds(1)
  \/ \E dbOk \in BOOLEAN : SyncInsert(1, dbOk)

SpecBoth == InitBoth /\ [][NextBoth]_vars

\* the first ten characters of a date text: its calendar day
DayOf(s) == SubSeq(s, 1, 10)

\* candidate p of a file row and completed order zt describe one trade
SameTrade(p, zt) ==
  /\ p.symbol = zt.tradingsymbol
  /\ MathAbs(p.quantity) = zt.filled_quantity
  /\ EntryPrice(p) = zt.average_price
  /\ DayOf(p.tradeDate) = DayOf(zt.order_timestamp)

\* the stored trades of user u that a file import built for the trade of
\* order zt
StoredImports(u, zt) ==
  { j \in 1..Len(store) :
      /\ store[j].user_id = u
      /\ store[j].notes.kind = "import"
      /\ store[j].symbol = zt.tradingsymbol
      /\ store[j].entry_price = PgNumeric(zt.average_price)
      /\ store[j].position_size = PgNumeric(zt.filled_quantity)
      /\ DayOf(store[j].entry_date) = DayOf(zt.order_timestamp) }

\* the import and the sync of one user have both succeeded
BothSucceeded ==
  /\ Succeeded(calls[1])
  /\ SyncSucceeded(syncs[1])
  /\ calls[1].user = syncs[1].user

\* the rows of call c's file that describe the trade of order zt
TradeRows(c, zt) ==
  { j \in ParsedRows(c) :
      SameTrade(Candidate(c.fn, c.trades[j], Days[today])[1], zt) }

\* the stored synced trades of user u whose columns read back as exactly
\* the date text, entry price and signed quantity of candidate p
SyncedTwins(u, p) ==
  { j \in SyncedRecords :
      /\ store[j].user_id = u
      /\ store[j].symbol = p.symbol
      /\ store[j].entry_date = p.tradeDate
      /\ store[j].entry_price = EntryPrice(p)
      /\ store[j].position_size = p.quantity }

\* the step of the import processes a row that describes a completed order
\* of the brokerage's book
ProcessesTradeRow(p) ==
  /\ calls[1].pc = "loop"
  /\ calls'[1].i # calls[1].i
  /\ p # Null
  /\ \E k \in 1..Len(CompletedOrders(book)) :
       SameTrade(p[1], CompletedOrders(book)[k])

\* C27 as stated: when an import and a sync of one user have both
\* succeeded, whichever ran first, the table holds every completed order of
\* the answer as a synced trade and, beside it, one imported trade for
\* every row of the file that describes the same trade.
C27_PathsNeverRecognize ==
  BothSucceeded =>
    \A k \in 1..Len(syncs[1].zerodhaTrades) :
      /\ StoredOrder(calls[1].user, syncs[1].zerodhaTrades[k].order_id) # {}
      /\ Cardinality(StoredImports(calls[1].user, syncs[1].zerodhaTrades[k]))
           = Cardinality(TradeRows(calls[1], syncs[1].zerodhaTrades[k]))

\* C27 amended: the sync builds a trade for every completed order whatever
\* the import stored, and the import accepts a row describing a completed
\* order unless a synced trade of the user is stored whose date, entry
\* price and size read back as exactly the row's date text, entry price
\* and signed quantity; such a row is skipped as a duplicate.
C27_PathsRecognizeOnlyByKey ==
  [][/\ ProcessesTradeRow(Candidate(calls[1].fn, RowAt(1), Days[today]))
          => (Accepts(1)
                <=> SyncedTwins(calls[1].user,
                      Candidate(calls[1].fn, RowAt(1), Days[today])[1]) = {})
     /\ (syncs[1].pc = "existing" /\ syncs'[1].pc # "existing")
          => /\ syncs'[1].existingTradeIds = {}
             /\ Len(NewTrades(syncs[1].user, syncs[1].zerodhaTrades,
                              syncs'[1].existingTradeIds,
                              syncs[1].positionsMap))
                  = Len(syncs[1].zerodhaTrades)]_vars

\* C27 witness: the import stored the tradebook line of order A1 and the
\* sync that ran after it stored the order again.
C27_Witness ==
  /\ BothSucceeded
  /\ calls[1].trades = <<rowOrderDay>>
  /\ Len(store) = 2
  /\ store[1].notes.kind = "import"
  /\ store[2].notes.kind = "sync"
  /\ store[1].symbol = store[2].symbol
  /\ store[1].entry_date = store[2].entry_date
  /\ store[1].entry_price = store[2].entry_price
  /\ store[1].position_size = store[2].position_size

(***************************************************************************)
(* Properties of the report's counts                                       *)
(***************************************************************************)
\* the rows of a call's batch counted in one of the report's buckets
Counted(rep) == rep.imported + rep.skipped + rep.errors

\* the rows of a call's batch for which its extractor returns null
NullRows(c) == (1..Len(c.trades)) \ ParsedRows(c)

\* C28: a report of the auto-detecting import has imported + skipped +
\* errors = totalRows; a report of the Groww-only import has imported +
\* skipped + errors <= totalRows, short of it by the number of rows its
\* extractor returned null for; totalRows is the length of the batch.
C28_ReportAccounting ==
  \A c \in CallIds :
    Succeeded(calls[c]) =>
      /\ ReportOf(calls[c]).totalRows = Len(calls[c].trades)
      /\ calls[c].fn = "auto"
           => Counted(ReportOf(calls[c])) = ReportOf(calls[c]).totalRows
      /\ calls[c].fn = "groww"
           => /\ Counted(ReportOf(calls[c])) <= ReportOf(calls[c]).totalRows
              /\ ReportOf(calls[c]).totalRows - Counted(ReportOf(calls[c]))
                   = Cardinality(NullRows(calls[c]))

\* C28 witness: the same two-row file, one row of which neither extractor
\* parses, went through both functions: the auto-detecting import counted
\* both rows and the Groww-only import one.
C28_Witness ==
  /\ Succeeded(calls[1]) /\ Succeeded(calls[2])
  /\ calls[1].fn = "auto" /\ calls[2].fn = "groww"
  /\ ReportOf(calls[1]).totalRows = 2 /\ ReportOf(calls[2]).totalRows = 2
  /\ ReportOf(calls[1]).errors = 1
  /\ Counted(ReportOf(calls[1])) = 2
  /\ Counted(ReportOf(calls[2])) = 1

(***************************************************************************)
(* Properties of the separation between users                              *)
(***************************************************************************)
\* the stored trades whose columns rebuild the identity key of candidate p
KeyTwins(p) == { j \in 1..Len(store) : StoredKey(store[j]) = CandidateKey(p) }

\* what a step of call c that processes a row yielding candidate p does
\* with it, by the owners of the stored trades under p's key
IsolatedRowStep(c, p) ==
  /\ calls'[c].skipped > calls[c].skipped
       => \E j \in KeyTwins(p) : store[j].user_id = calls[c].user
  /\ (\A j \in KeyTwins(p) : store[j].user_id # calls[c].user)
       => /\ Accepts(c)
          /\ LastAccepted(calls'[c]).user_id = calls[c].user

\* C29: every record an import adds to the table carries the caller's
\* user_id, a row is skipped as a duplicate only when a stored trade of the
\* caller has its key, and a row whose key only other users' stored trades
\* have is accepted.
C29_UserIsolation ==
  [][\A c \in CallIds :
       /\ (calls[c].pc = "loop" /\ calls'[c].i # calls[c].i
            /\ Candidate(calls[c].fn, RowAt(c), Days[today]) # Null)
            => IsolatedRowStep(c, Candidate(calls[c].fn, RowAt(c), Days[today])[1])
       /\ calls'[c].inserts > calls[c].inserts
            => \A k \in (Len(store) + 1)..Len(store') :
                 store'[k].user_id = calls[c].user]_vars

\* C29 witness: the second call, of another user than the first, imported
\* a row and skipped none while the table held the first user's trade
\* under the same key.
C29_Witness ==
  /\ Succeeded(calls[1]) /\ Succeeded(calls[2])
  /\ calls[1].user # calls[2].user
  /\ ReportOf(calls[2]).skipped = 0
  /\ ReportOf(calls[2]).imported >= 1
  /\ \E j1, j2 \in 1..Len(store) :
       /\ store[j1].user_id = calls[1].user
       /\ store[j2].user_id = calls[2].user
       /\ StoredKey(store[j1]) = StoredKey(store[j2])
       /\ StoredKey(store[j1]) = RowKey(calls[2], 1)

(***************************************************************************)
(* Properties of the preview dialog against the import function           *)
(***************************************************************************)
\* C30: a row the preview dialog's validator marks valid, under either
\* format, yields a candidate in the auto-detecting import, so it is
\* imported or skipped and never counted in errors.
C30_PreviewAgreesWithImport ==
  (exOut.fn = "validateAndParseRow" /\ exOut.out[1].valid)
    => Candidate("auto", exRow, Days[today]) # Null

====
